---- MODULE Spec2Model ----
(***************************************************************************)
(* ISL mesh pipeline of dymen-sim: Walker-Delta topology generation,       *)
(* static shortest-path routing, point-to-point link creation, /30 address *)
(* assignment and host-route installation.                                 *)
(***************************************************************************)
EXTENDS Integers, Sequences, FiniteSets, TLC

(***************************************************************************)
(* Bounds of the model (not program constants).                            *)
(***************************************************************************)
\* largest numSatellites of a hand-built IslTopology
MaxSat == 3
\* largest total number of neighbor entries pushed into a hand-built IslTopology
MaxEntries == 4
\* largest node ID used in a hand-filled RoutingTables object
MaxTableNode == 3
\* largest number of SetNextHop calls made on a hand-filled RoutingTables object
MaxSets == 3
\* largest low link index a stand-alone AssignIslAddresses pass is examined at
MaxLinkIndex == 70
\* longest short chain GetHopCount is walked along, besides the chains about HOP_LIMIT
MaxChain == 3
\* largest number of sources whose computations are run as separate workers
MaxWorkers == 3

\* packets the tracer is shown in one run
MaxPackets == 2

\* main: uint16_t basePort = 9 and uint32_t groundNodes = 20
basePort == 9
DefaultGroundNodes == 20

\* IsDataPacket: 17 = UDP, data ports 9 to 14
UDP_PROTOCOL == 17
DATA_PORT_MIN == 9
DATA_PORT_MAX == 14
\* largest node index used by the calls made on a RoutingTables object on its own
MaxFrameNode == 1

(***************************************************************************)
(* Program constants.                                                      *)
(***************************************************************************)
\* std::numeric_limits<uint32_t>::max(), the "no route" / "infinite" sentinel.
\* TLC integers end at 2^31 - 1, so the sentinel is the largest TLC integer; every
\* node ID, distance and hop count of the model is far below it.
UINT32_MAX == 2147483647
NUM_PLANES == 3
SATS_PER_PLANE == 8
SUPPORTED_SATS == 24
SUPPORTED_NEIGHBORS == 4
HOP_LIMIT == 100
LINKS_PER_OCTET == 64
BLOCK_STRIDE == 4

\* arguments the command line / tests hand to GenerateWalkerDeltaTopology
SatCounts == {0, 1, 10, 23, 24, 25}
NeighborCounts == {0, 3, 4, 5}

(***************************************************************************)
(* Small helpers.                                                          *)
(***************************************************************************)
Range(s) == {s[i] : i \in DOMAIN s}

Nodes(n) == 0 .. (n - 1)

\* std::map<K,V>: a function on the set of keys present
EmptyMap == [k \in {} |-> 0]

\* m[k] = v, inserting the key when absent
MapPut(m, k, v) == (k :> v) @@ m

(***************************************************************************)
(* IslTopology                                                             *)
(***************************************************************************)
\* IslTopology() : numSatellites(0), numLinks(0), neighbors empty
IslTopology == [numSatellites |-> 0, numLinks |-> 0, neighbors |-> EmptyMap]

\* topology.neighbors[a].push_back(b) on a hand-built topology
PushNeighbor(T, a, b) ==
    [T EXCEPT !.neighbors =
        MapPut(T.neighbors, a,
               (IF a \in DOMAIN T.neighbors THEN T.neighbors[a] ELSE <<>>) \o <<b>>)]

\* neighbor list of u as the code reads it through neighbors.find(u)
NeighborsOf(T, u) == IF u \in DOMAIN T.neighbors THEN T.neighbors[u] ELSE <<>>

\* mutant: the pairs are inserted as enumerated, both directions counted
UniqueLinks_Directed(nb) ==
    UNION { { <<satId, nb[satId][i]>> : i \in DOMAIN nb[satId] } : satId \in DOMAIN nb }

\* the std::set of normalised (smaller, larger) pairs built while counting links
UniqueLinks(nb) ==
    UNION { { IF satId < nb[satId][i] THEN <<satId, nb[satId][i]>>
                                     ELSE <<nb[satId][i], satId>> :
                i \in DOMAIN nb[satId] } : satId \in DOMAIN nb }

\* mutant: the right-hand neighbor is taken one slot ahead in the next plane
WalkerNeighbors_SlotShift(plane, idx) ==
    LET forward == plane * SATS_PER_PLANE + ((idx + 1) % SATS_PER_PLANE)
        backward == plane * SATS_PER_PLANE + ((idx + SATS_PER_PLANE - 1) % SATS_PER_PLANE)
        nextPlane == (plane + 1) % NUM_PLANES
        prevPlane == (plane + NUM_PLANES - 1) % NUM_PLANES
        rightNeighbor == nextPlane * SATS_PER_PLANE + ((idx + 1) % SATS_PER_PLANE)
        leftNeighbor == prevPlane * SATS_PER_PLANE + idx
    IN  <<forward, backward, rightNeighbor, leftNeighbor>>

\* the four neighbors pushed for satellite (plane, idx), in push order
WalkerNeighbors(plane, idx) ==
    LET forward == plane * SATS_PER_PLANE + ((idx + 1) % SATS_PER_PLANE)
        backward == plane * SATS_PER_PLANE + ((idx + SATS_PER_PLANE - 1) % SATS_PER_PLANE)
        nextPlane == (plane + 1) % NUM_PLANES
        prevPlane == (plane + NUM_PLANES - 1) % NUM_PLANES
        rightNeighbor == nextPlane * SATS_PER_PLANE + idx
        leftNeighbor == prevPlane * SATS_PER_PLANE + idx
    IN  <<forward, backward, rightNeighbor, leftNeighbor>>

\* mutant: the neighbor count is not validated
WalkerSupported_CountOnly(numSatellites, neighborsPerSat) ==
    numSatellites = SUPPORTED_SATS

\* does the generator accept (numSatellites, neighborsPerSat)?
WalkerSupported(numSatellites, neighborsPerSat) ==
    numSatellites = SUPPORTED_SATS /\ neighborsPerSat = SUPPORTED_NEIGHBORS

GenerateWalkerDeltaTopology(numSatellites, neighborsPerSat) ==
    IF ~WalkerSupported(numSatellites, neighborsPerSat)
    THEN [IslTopology EXCEPT !.numSatellites = numSatellites]
    ELSE LET nb == [satId \in Nodes(NUM_PLANES * SATS_PER_PLANE) |->
                        WalkerNeighbors(satId \div SATS_PER_PLANE, satId % SATS_PER_PLANE)]
         IN  [numSatellites |-> numSatellites,
              numLinks |-> Cardinality(UniqueLinks(nb)),
              neighbors |-> nb]

(***************************************************************************)
(* RoutingTables                                                           *)
(***************************************************************************)
GetNextHop(m_nextHop, src, dst) ==
    IF src \notin DOMAIN m_nextHop THEN UINT32_MAX
    ELSE IF dst \notin DOMAIN m_nextHop[src] THEN UINT32_MAX
    ELSE m_nextHop[src][dst]

\* mutant: the row of src is replaced by a row holding dst alone
SetNextHop_FreshRow(m_nextHop, src, dst, nextHop) ==
    MapPut(m_nextHop, src, MapPut(EmptyMap, dst, nextHop))

\* m_nextHop[src][dst] = nextHop
SetNextHop(m_nextHop, src, dst, nextHop) ==
    MapPut(m_nextHop, src,
           MapPut(IF src \in DOMAIN m_nextHop THEN m_nextHop[src] ELSE EmptyMap,
                  dst, nextHop))

GetAllNextHops(m_nextHop, src) ==
    IF src \notin DOMAIN m_nextHop THEN EmptyMap ELSE m_nextHop[src]

(***************************************************************************)
(* ComputeStaticRoutes: one priority-queue Dijkstra run per source.        *)
(***************************************************************************)
\* mutant: std::less, the queue hands out the largest pair first
PQLess_MaxHeap(a, b) == a[1] > b[1] \/ (a[1] = b[1] /\ a[2] > b[2])

\* std::greater<pair<uint32_t,uint32_t>>: a comes out before b
PQLess(a, b) == a[1] < b[1] \/ (a[1] = b[1] /\ a[2] < b[2])

\* index of the element pq.top() returns
\* mutant: the queue compares distances only and hands out the earliest pushed of them
PQTopIndex_ByDistOnly(pq) ==
    CHOOSE i \in DOMAIN pq :
        /\ \A j \in DOMAIN pq : pq[i][1] <= pq[j][1]
        /\ \A j \in 1 .. (i - 1) : pq[j][1] # pq[i][1]

PQTopIndex(pq) ==
    CHOOSE i \in DOMAIN pq :
        /\ \A j \in DOMAIN pq : ~PQLess(pq[j], pq[i])
        /\ \A j \in 1 .. (i - 1) : pq[j] # pq[i]

PQPop(pq) ==
    LET k == PQTopIndex(pq)
    IN  [i \in 1 .. (Len(pq) - 1) |-> IF i < k THEN pq[i] ELSE pq[i + 1]]

\* mutant: an equal distance replaces the recorded one as well
Improves_OrEqual(newDist, old) == newDist <= old

\* is newDist an improvement over the recorded distance?
Improves(newDist, old) == newDist < old

\* the relaxation loop over u's neighbor list, from position i on
RECURSIVE RelaxFrom(_, _, _, _)
RelaxFrom(st, u, nbrs, i) ==
    IF i > Len(nbrs) THEN st
    ELSE LET v == nbrs[i]
             newDist == st.dist[u] + 1
         IN  IF ~st.visited[v] /\ Improves(newDist, st.dist[v])
             THEN RelaxFrom([st EXCEPT !.dist[v] = newDist,
                                       !.prev[v] = u,
                                       !.pq = Append(@, <<newDist, v>>)],
                            u, nbrs, i + 1)
             ELSE RelaxFrom(st, u, nbrs, i + 1)

\* one pass through the body of while (!pq.empty()); no pass on an empty queue
DrainPass(T, st) ==
    IF st.pq = <<>> THEN st
    ELSE LET u == st.pq[PQTopIndex(st.pq)][2]
             popped == [st EXCEPT !.pq = PQPop(st.pq)]
         IN  IF popped.visited[u] THEN popped
             ELSE RelaxFrom([popped EXCEPT !.visited[u] = TRUE], u, NeighborsOf(T, u), 1)

\* up to n consecutive passes (n >= 1), the first half of them and then the rest;
\* the loop is over once the queue is empty
RECURSIVE DrainPasses(_, _, _)
DrainPasses(T, st, n) ==
    IF st.pq = <<>> THEN st
    ELSE IF n <= 1 THEN DrainPass(T, st)
    ELSE DrainPasses(T, DrainPasses(T, st, n \div 2), n - (n \div 2))

\* while (!pq.empty()) { ... }: passes until the queue is empty
RECURSIVE DrainQueue(_, _)
DrainQueue(T, st) ==
    IF st.pq = <<>> THEN st
    ELSE DrainQueue(T, DrainPasses(T, st, T.numSatellites + 1))

\* dist[], prev[] and visited[] after the search from src
SingleSource(T, src) ==
    DrainQueue(T, [dist |-> [v \in Nodes(T.numSatellites) |->
                                IF v = src THEN 0 ELSE UINT32_MAX],
                   prev |-> [v \in Nodes(T.numSatellites) |-> UINT32_MAX],
                   visited |-> [v \in Nodes(T.numSatellites) |-> FALSE],
                   pq |-> << <<0, src>> >>])

\* mutant: a single step back (if instead of while)
FirstHop_OneStep(prev, src, current) ==
    IF prev[current] # src /\ prev[current] # UINT32_MAX
    THEN prev[current]
    ELSE current

\* trace back from dst until the node whose predecessor is src
RECURSIVE FirstHop(_, _, _)
FirstHop(prev, src, current) ==
    IF prev[current] # src /\ prev[current] # UINT32_MAX
    THEN FirstHop(prev, src, prev[current])
    ELSE current

\* mutant: the src == dst test is missing
HasRoute_Self(dist, src, dst) == dist[dst] # UINT32_MAX

\* does the extraction loop store an entry for (src, dst)?
HasRoute(dist, src, dst) == src # dst /\ dist[dst] # UINT32_MAX

\* the row m_nextHop[src] written by the extraction loop
RouteRow(T, src) ==
    LET st == SingleSource(T, src)
        dsts == {dst \in Nodes(T.numSatellites) : HasRoute(st.dist, src, dst)}
    IN  [dst \in dsts |-> FirstHop(st.prev, src, dst)]

ComputeStaticRoutes(T) ==
    LET rows == [src \in Nodes(T.numSatellites) |-> RouteRow(T, src)]
    IN  [src \in {s \in Nodes(T.numSatellites) : DOMAIN rows[s] # {}} |-> rows[src]]

(***************************************************************************)
(* GetHopCount                                                             *)
(***************************************************************************)
\* the locals of GetHopCount on entry
HopStart(src, dst) ==
    [current |-> src, hops |-> 0, visited |-> {},
     done |-> (src = dst), ret |-> 0]

\* has the walk used up its iteration allowance?
HopLimitHit(hops) == hops > HOP_LIMIT

\* mutant: a detected loop returns the hops counted so far
HopIter_HopsOnLoop(m_nextHop, dst, w) ==
    IF w.current \in w.visited
    THEN [w EXCEPT !.done = TRUE, !.ret = w.hops]
    ELSE LET next == GetNextHop(m_nextHop, w.current, dst)
             seen == w.visited \cup {w.current}
         IN  IF next = UINT32_MAX
             THEN [w EXCEPT !.visited = seen, !.current = next,
                            !.done = TRUE, !.ret = UINT32_MAX]
             ELSE IF HopLimitHit(w.hops + 1)
             THEN [w EXCEPT !.visited = seen, !.current = next,
                            !.hops = @ + 1, !.done = TRUE, !.ret = UINT32_MAX]
             ELSE [w EXCEPT !.visited = seen, !.current = next, !.hops = @ + 1,
                            !.done = (next = dst),
                            !.ret = IF next = dst THEN w.hops + 1 ELSE @]

\* one pass through the body of while (current != dst)
HopIter(m_nextHop, dst, w) ==
    IF w.current \in w.visited
    THEN [w EXCEPT !.done = TRUE, !.ret = UINT32_MAX]
    ELSE LET next == GetNextHop(m_nextHop, w.current, dst)
             seen == w.visited \cup {w.current}
         IN  IF next = UINT32_MAX
             THEN [w EXCEPT !.visited = seen, !.current = next,
                            !.done = TRUE, !.ret = UINT32_MAX]
             ELSE IF HopLimitHit(w.hops + 1)
             THEN [w EXCEPT !.visited = seen, !.current = next,
                            !.hops = @ + 1, !.done = TRUE, !.ret = UINT32_MAX]
             ELSE [w EXCEPT !.visited = seen, !.current = next, !.hops = @ + 1,
                            !.done = (next = dst),
                            !.ret = IF next = dst THEN w.hops + 1 ELSE @]

RECURSIVE HopRun(_, _, _)
HopRun(m_nextHop, dst, w) ==
    IF w.done THEN w.ret ELSE HopRun(m_nextHop, dst, HopIter(m_nextHop, dst, w))

GetHopCount(m_nextHop, src, dst) == HopRun(m_nextHop, dst, HopStart(src, dst))

(***************************************************************************)
(* Dijkstra (array scan) of the topology generator                         *)
(***************************************************************************)
\* the unvisited node of minimum finite distance the scan settles on
ScanMin(dist, visited, n) ==
    LET cand == {v \in Nodes(n) : ~visited[v] /\ dist[v] < UINT32_MAX}
    IN  IF cand = {} THEN UINT32_MAX
        ELSE CHOOSE u \in cand :
                \A v \in cand : dist[u] < dist[v] \/ (dist[u] = dist[v] /\ u <= v)

RECURSIVE DijkstraRelax(_, _, _, _, _)
DijkstraRelax(n, st, u, nbrs, i) ==
    IF i > Len(nbrs) THEN st
    ELSE LET neighbor == nbrs[i]
         IN  IF neighbor < n /\ ~st.visited[neighbor] /\ st.dist[u] + 1 < st.dist[neighbor]
             THEN DijkstraRelax(n, [st EXCEPT !.dist[neighbor] = st.dist[u] + 1],
                                u, nbrs, i + 1)
             ELSE DijkstraRelax(n, st, u, nbrs, i + 1)

\* one pass of the for loop; after the break (u == INF) nothing changes any more
DijkstraPass(T, st) ==
    LET u == ScanMin(st.dist, st.visited, T.numSatellites)
    IN  IF u = UINT32_MAX THEN st
        ELSE DijkstraRelax(T.numSatellites, [st EXCEPT !.visited[u] = TRUE],
                           u, NeighborsOf(T, u), 1)

\* k passes of for (i = 0; i < numSatellites; ++i), the first half and then the rest;
\* the loop is over once the scan finds no node (break)
RECURSIVE DijkstraLoop(_, _, _)
DijkstraLoop(T, st, k) ==
    IF k <= 0 \/ ScanMin(st.dist, st.visited, T.numSatellites) = UINT32_MAX THEN st
    ELSE IF k = 1 THEN DijkstraPass(T, st)
    ELSE DijkstraLoop(T, DijkstraLoop(T, st, k \div 2), k - (k \div 2))

Dijkstra(T, src) ==
    LET init == [dist |-> [v \in Nodes(T.numSatellites) |-> UINT32_MAX],
                 visited |-> [v \in Nodes(T.numSatellites) |-> FALSE]]
    IN  IF src >= T.numSatellites THEN init.dist
        ELSE DijkstraLoop(T, [init EXCEPT !.dist[src] = 0], T.numSatellites).dist

(***************************************************************************)
(* BFS and ComputeMeshConnectivity of the topology generator.  The double  *)
(* returned is kept as the fraction num / den it is computed from.         *)
(***************************************************************************)
\* mutant: a neighbor is marked but not queued
RECURSIVE BFSVisit_NoPush(_, _, _, _)
BFSVisit_NoPush(n, st, nbrs, i) ==
    IF i > Len(nbrs) THEN st
    ELSE LET neighbor == nbrs[i]
         IN  IF neighbor < n /\ ~st.visited[neighbor]
             THEN BFSVisit_NoPush(n, [visited |-> [st.visited EXCEPT ![neighbor] = TRUE],
                                      q |-> st.q],
                                  nbrs, i + 1)
             ELSE BFSVisit_NoPush(n, st, nbrs, i + 1)

\* for (uint32_t neighbor : it->second), from position i on
RECURSIVE BFSVisit(_, _, _, _)
BFSVisit(n, st, nbrs, i) ==
    IF i > Len(nbrs) THEN st
    ELSE LET neighbor == nbrs[i]
         IN  IF neighbor < n /\ ~st.visited[neighbor]
             THEN BFSVisit(n, [visited |-> [st.visited EXCEPT ![neighbor] = TRUE],
                               q |-> Append(st.q, neighbor)],
                           nbrs, i + 1)
             ELSE BFSVisit(n, st, nbrs, i + 1)

\* while (!q.empty()): pop the front, visit its neighbors if it has an entry
RECURSIVE BFSLoop(_, _)
BFSLoop(T, st) ==
    IF st.q = <<>> THEN st
    ELSE LET current == Head(st.q)
             popped == [st EXCEPT !.q = Tail(st.q)]
         IN  IF current \in DOMAIN T.neighbors
             THEN BFSLoop(T, BFSVisit(T.numSatellites, popped, T.neighbors[current], 1))
             ELSE BFSLoop(T, popped)

\* the vector<bool> of the satellites reachable from src
BFS(T, src) ==
    LET visited == [v \in Nodes(T.numSatellites) |-> FALSE]
    IN  IF src >= T.numSatellites THEN visited
        ELSE BFSLoop(T, [visited |-> [visited EXCEPT ![src] = TRUE], q |-> <<src>>]).visited

\* std::count(reachable.begin(), reachable.end(), true)
CountTrue(reachable) == Cardinality({v \in DOMAIN reachable : reachable[v]})

\* mutant: the source itself is counted among the satellites it reaches
RECURSIVE ReachablePairsFrom_CountSelf(_, _)
ReachablePairsFrom_CountSelf(T, src) ==
    IF src >= T.numSatellites THEN 0
    ELSE CountTrue(BFS(T, src)) + ReachablePairsFrom_CountSelf(T, src + 1)

\* reachablePairs accumulated by the passes src, src + 1, ... of the for loop
RECURSIVE ReachablePairsFrom(_, _)
ReachablePairsFrom(T, src) ==
    IF src >= T.numSatellites THEN 0
    ELSE (CountTrue(BFS(T, src)) - 1) + ReachablePairsFrom(T, src + 1)

\* uint32_t totalPairs = numSatellites * (numSatellites - 1); with numSatellites = 0
\* the second factor wraps to UINT32_MAX and the product is 0
TotalPairs(T) == IF T.numSatellites = 0 THEN 0 ELSE T.numSatellites * (T.numSatellites - 1)

\* 0.0 on the early return, otherwise static_cast<double>(reachablePairs) / totalPairs
ComputeMeshConnectivity(T) ==
    IF TotalPairs(T) = 0 THEN [num |-> 0, den |-> 1]
    ELSE [num |-> ReachablePairsFrom(T, 0), den |-> TotalPairs(T)]

(***************************************************************************)
(* IslNetworkCreator.  A node is known by its satellite index: main creates *)
(* the satellites first, so Node::GetId() is that index.  An interface      *)
(* index is a position in the node's Ipv4 interface list, 0 = loopback.     *)
(***************************************************************************)
\* the interface lists after the internet stack is installed: loopback only
\* (the loopback device has no peer: peer = -1)
LoopbackOnly(n) ==
    [x \in Nodes(n) |-> << [device |-> [node |-> x, peer |-> -1], addr |-> <<127, 0, 0, 1>>] >>]

\* mutant: the createdLinks lookup is missing
AlreadyCreated_Never(createdLinks, linkPair) == FALSE

\* has the pair already been created? (createdLinks.count(linkPair))
AlreadyCreated(createdLinks, linkPair) == linkPair \in createdLinks

\* NS_ASSERT_MSG is compiled in only under NS3_ASSERT_ENABLE; the Makefile's
\* CXXFLAGS (-std=c++20 -Wall -O2) do not define it, a debug build of ns-3 does
AssertBuilds == BOOLEAN

\* satellites.Get(idx) is m_nodes[idx] without a range check: an index past the end
\* is undefined behaviour, which either ends the run at the access (stray = -1) or
\* yields some node of the container (stray = that node)
StrayReads(satellitesN) == {-1} \cup Nodes(satellitesN)

\* the device PointToPointHelper::Install puts on satellites.Get(idx), facing other
EndDevice(st, idx, other) ==
    IF idx < st.n THEN [node |-> idx, peer |-> other]
    ELSE [node |-> st.stray, peer |-> other, wild |-> idx]

\* mutant: the device of the neighbor is put into the container first
InstallLink_PeerFirst(st, sat, neighbor) ==
    << EndDevice(st, neighbor, sat), EndDevice(st, sat, neighbor) >>

\* islHelper.Install(node1, node2): the device of node1, then the device of node2
InstallLink(st, sat, neighbor) ==
    << EndDevice(st, sat, neighbor), EndDevice(st, neighbor, sat) >>

\* the loop over one satellite's neighbor list, from position i on
RECURSIVE MeshNeighborsFrom(_, _, _, _)
MeshNeighborsFrom(st, sat, nbrs, i) ==
    IF i > Len(nbrs) THEN st
    ELSE LET neighbor == nbrs[i]
             linkPair == <<sat, neighbor>>
         IN  IF sat >= neighbor \/ AlreadyCreated(st.createdLinks, linkPair)
             THEN MeshNeighborsFrom(st, sat, nbrs, i + 1)
             ELSE IF (sat >= st.n \/ neighbor >= st.n) /\ st.stray = -1
             THEN [st EXCEPT !.ok = FALSE]
             ELSE MeshNeighborsFrom(
                     [st EXCEPT !.devices = @ \o InstallLink(st, sat, neighbor),
                                !.createdLinks = @ \cup {linkPair}],
                     sat, nbrs, i + 1)

\* the outer loop's pass for sat; neighbors.at(sat) throws on a missing key, and
\* nothing runs after the throw
MeshSat(T, st, sat) ==
    IF ~st.ok THEN st
    ELSE IF sat \notin DOMAIN T.neighbors THEN [st EXCEPT !.ok = FALSE]
    ELSE MeshNeighborsFrom(st, sat, T.neighbors[sat], 1)

\* the loop over the satellites lo .. hi-1 in ascending order
RECURSIVE MeshSatsFrom(_, _, _, _)
MeshSatsFrom(T, st, lo, hi) ==
    IF ~st.ok \/ lo >= hi THEN st
    ELSE IF hi = lo + 1 THEN MeshSat(T, st, lo)
    ELSE MeshSatsFrom(T, MeshSatsFrom(T, st, lo, (lo + hi) \div 2), (lo + hi) \div 2, hi)

\* devices: allIslDevices in creation order, two per link; ok = FALSE when the call
\* did not return (failed assertion, std::out_of_range or a fatal stray read)
CreateIslMesh(satellitesN, T, asserts, stray) ==
    IF asserts /\ satellitesN # T.numSatellites
    THEN [devices |-> <<>>, createdLinks |-> {}, ok |-> FALSE,
          n |-> satellitesN, stray |-> stray]
    ELSE MeshSatsFrom(T, [devices |-> <<>>, createdLinks |-> {}, ok |-> TRUE,
                          n |-> satellitesN, stray |-> stray],
                      0, T.numSatellites)

\* mutant: the link index is divided by the stride instead of multiplied
SubnetBase_Div(i) == <<10, i \div LINKS_PER_OCTET, (i % LINKS_PER_OCTET) \div BLOCK_STRIDE, 0>>

\* "10." << (i / 64) << "." << ((i % 64) * 4) << ".0", as its four numbers
\* mutant: the second octet advances every 16 links
SubnetBase_SixteenPerOctet(i) == <<10, i \div 16, (i % 16) * BLOCK_STRIDE, 0>>

SubnetBase(i) == <<10, i \div LINKS_PER_OCTET, (i % LINKS_PER_OCTET) * BLOCK_STRIDE, 0>>

\* main, step 4b: groundAddress.SetBase("10.1.0.0", "255.255.0.0"); is addr in that network?
InGroundNetwork(addr) == addr[1] = 10 /\ addr[2] = 1

\* are the four numbers of a dotted string octets?
ValidOctets(subnet) == \A k \in 1 .. 4 : subnet[k] \in 0 .. 255

\* the ns-3 releases differ in Ipv4Address(const char*): inet_pton rejects a number
\* above 255 and the run aborts; the older digit loop keeps its low 8 bits
Ipv4Libraries == {"inet_pton", "ascii"}

\* Ipv4Address(subnet.str().c_str()) as built for SetBase
ParseIpv4(subnet, lib) ==
    IF ValidOctets(subnet) THEN [ok |-> TRUE, addr |-> subnet]
    ELSE IF lib = "inet_pton" THEN [ok |-> FALSE, addr |-> <<>>]
    ELSE [ok |-> TRUE, addr |-> [k \in 1 .. 4 |-> subnet[k] % 256]]

\* Ipv4AddressHelper::NewAddress: the k-th host of the block
HostAddress(base, k) == <<base[1], base[2], base[3], base[4] + k>>

\* interface of a device on its node, -1 when it has none
GetInterfaceForDevice(ifs, device) ==
    IF \E j \in DOMAIN ifs : ifs[j].device = device
    THEN (CHOOSE j \in DOMAIN ifs : ifs[j].device = device) - 1
    ELSE -1

\* Ipv4AddressHelper::Assign on one device: st.ipv4 gets the interface and the
\* address, st.interfaces the pair (node, interface index)
AssignDevice(st, device, addr) ==
    LET x == device.node
        found == GetInterfaceForDevice(st.ipv4[x], device)
        interface == IF found = -1 THEN Len(st.ipv4[x]) ELSE found
        ifs == IF found = -1
               THEN Append(st.ipv4[x], [device |-> device, addr |-> addr])
               ELSE [st.ipv4[x] EXCEPT ![found + 1].addr = addr]
    IN  [ipv4 |-> [st.ipv4 EXCEPT ![x] = ifs],
         interfaces |-> Append(st.interfaces, [node |-> x, interface |-> interface])]

\* the devices of link i in the container: Get(i * 2), Get(i * 2 + 1)
LinkDevices(islDevices, i) == <<islDevices[2 * i + 1], islDevices[2 * i + 2]>>

\* the loop's pass for link i: SetBase, then Assign on the link's two devices
AssignLink(st, islDevices, i) ==
    LET base == SubnetBase(i)
        linkDevices == LinkDevices(islDevices, i)
        one == AssignDevice(st, linkDevices[1], HostAddress(base, 1))
    IN  AssignDevice(one, linkDevices[2], HostAddress(base, 2))

\* the loop over the links from the current one up to hi-1, in ascending order; i,
\* the loop counter, is read off the container, which grows by two per pass
RECURSIVE AssignLinksFrom(_, _, _)
AssignLinksFrom(st, islDevices, hi) ==
    LET i == Len(st.interfaces) \div 2
    IN  IF i >= hi THEN st
        ELSE IF hi = i + 1 THEN AssignLink(st, islDevices, i)
        ELSE AssignLinksFrom(AssignLinksFrom(st, islDevices, (i + hi) \div 2),
                             islDevices, hi)

AssignIslAddresses(islDevices, ipv4In) ==
    AssignLinksFrom([ipv4 |-> ipv4In, interfaces |-> <<>>], islDevices,
                    Len(islDevices) \div 2)

\* islInterfaces.GetAddress(i)
GetAddress(islInterfaces, ipv4In, i) ==
    ipv4In[islInterfaces[i + 1].node][islInterfaces[i + 1].interface + 1].addr

\* mutant: the two interface indices are stored under the wrong direction
LinkBindings_Swapped(m, islInterfaces, ipv4In, i) ==
    LET satA == islInterfaces[i + 1].node
        satB == islInterfaces[i + 2].node
        interfaceIdxA == islInterfaces[i + 1].interface
        interfaceIdxB == islInterfaces[i + 2].interface
        addrA == GetAddress(islInterfaces, ipv4In, i)
        addrB == GetAddress(islInterfaces, ipv4In, i + 1)
    IN  MapPut(MapPut(m, <<satA, satB>>, [interface |-> interfaceIdxB, addr |-> addrA]),
               <<satB, satA>>, [interface |-> interfaceIdxA, addr |-> addrB])

\* the two bindings step 1 records for the link whose interfaces are i and i + 1
LinkBindings(m, islInterfaces, ipv4In, i) ==
    LET satA == islInterfaces[i + 1].node
        satB == islInterfaces[i + 2].node
        interfaceIdxA == islInterfaces[i + 1].interface
        interfaceIdxB == islInterfaces[i + 2].interface
        addrA == GetAddress(islInterfaces, ipv4In, i)
        addrB == GetAddress(islInterfaces, ipv4In, i + 1)
    IN  MapPut(MapPut(m, <<satA, satB>>, [interface |-> interfaceIdxA, addr |-> addrA]),
               <<satB, satA>>, [interface |-> interfaceIdxB, addr |-> addrB])

\* step 1: (satA, satB) -> (local interface on satA, address on satA).  The loop
\* assigns map entries link by link, so a key holds what the last link that wrote
\* it stored.
BuildLinkToLocalInterface(islInterfaces, ipv4In) ==
    LET links == {i \in 0 .. (Len(islInterfaces) - 2) : i % 2 = 0}
        written == [i \in links |-> LinkBindings(EmptyMap, islInterfaces, ipv4In, i)]
        keys == UNION {DOMAIN written[i] : i \in links}
        last(k) == CHOOSE i \in links :
                      /\ k \in DOMAIN written[i]
                      /\ \A j \in links : k \in DOMAIN written[j] => j <= i
    IN  [k \in keys |-> written[last(k)][k]]

\* step 2: the address of the first non-loopback interface of each satellite
BuildSatelliteAddress(satellitesN, ipv4In) ==
    [sat \in {x \in Nodes(satellitesN) : Len(ipv4In[x]) > 1} |-> ipv4In[sat][2].addr]

\* mutant: a missing reverse binding does not skip the pair, the gateway is left unset
HostRoute_PartialRoute(m_nextHop, linkToLocalInterface, satelliteAddress, src, dst) ==
    LET nextHop == GetNextHop(m_nextHop, src, dst)
    IN  IF nextHop = UINT32_MAX THEN <<>>
        ELSE IF dst \notin DOMAIN satelliteAddress
             THEN << [dest |-> <<0, 0, 0, 0>>, gateway |-> <<0, 0, 0, 0>>,
                      interface |-> 0, dst |-> dst] >>
        ELSE IF <<src, nextHop>> \notin DOMAIN linkToLocalInterface THEN <<>>
        ELSE IF <<nextHop, src>> \notin DOMAIN linkToLocalInterface THEN <<>>
        ELSE << [dest |-> satelliteAddress[dst],
                 gateway |-> linkToLocalInterface[<<nextHop, src>>].addr,
                 interface |-> linkToLocalInterface[<<src, nextHop>>].interface,
                 dst |-> dst] >>

\* mutant: the gateway is taken from the binding (src, nextHop), src's own side
HostRoute_OwnSideGateway(m_nextHop, linkToLocalInterface, satelliteAddress, src, dst) ==
    LET nextHop == GetNextHop(m_nextHop, src, dst)
    IN  IF nextHop = UINT32_MAX THEN <<>>
        ELSE IF dst \notin DOMAIN satelliteAddress THEN <<>>
        ELSE IF <<src, nextHop>> \notin DOMAIN linkToLocalInterface THEN <<>>
        ELSE IF <<nextHop, src>> \notin DOMAIN linkToLocalInterface THEN <<>>
        ELSE << [dest |-> satelliteAddress[dst],
                 gateway |-> linkToLocalInterface[<<src, nextHop>>].addr,
                 interface |-> linkToLocalInterface[<<src, nextHop>>].interface,
                 dst |-> dst] >>

\* mutant: the egress binding is looked up under (src, dst), not (src, nextHop)
HostRoute_BindingOfDst(m_nextHop, linkToLocalInterface, satelliteAddress, src, dst) ==
    LET nextHop == GetNextHop(m_nextHop, src, dst)
    IN  IF nextHop = UINT32_MAX THEN <<>>
        ELSE IF dst \notin DOMAIN satelliteAddress THEN <<>>
        ELSE IF <<src, dst>> \notin DOMAIN linkToLocalInterface THEN <<>>
        ELSE IF <<nextHop, src>> \notin DOMAIN linkToLocalInterface THEN <<>>
        ELSE << [dest |-> satelliteAddress[dst],
                 gateway |-> linkToLocalInterface[<<nextHop, src>>].addr,
                 interface |-> linkToLocalInterface[<<src, dst>>].interface,
                 dst |-> dst] >>

\* mutant: the gateway is the destination's address, as if dst were on the link
HostRoute_GatewayIsDest(m_nextHop, linkToLocalInterface, satelliteAddress, src, dst) ==
    LET nextHop == GetNextHop(m_nextHop, src, dst)
    IN  IF nextHop = UINT32_MAX THEN <<>>
        ELSE IF dst \notin DOMAIN satelliteAddress THEN <<>>
        ELSE IF <<src, nextHop>> \notin DOMAIN linkToLocalInterface THEN <<>>
        ELSE IF <<nextHop, src>> \notin DOMAIN linkToLocalInterface THEN <<>>
        ELSE << [dest |-> satelliteAddress[dst],
                 gateway |-> satelliteAddress[dst],
                 interface |-> linkToLocalInterface[<<src, nextHop>>].interface,
                 dst |-> dst] >>

\* step 3 for one (src, dst): the host route added, or <<>> when the pair is skipped
HostRoute(m_nextHop, linkToLocalInterface, satelliteAddress, src, dst) ==
    LET nextHop == GetNextHop(m_nextHop, src, dst)
    IN  IF nextHop = UINT32_MAX THEN <<>>
        ELSE IF dst \notin DOMAIN satelliteAddress THEN <<>>
        ELSE IF <<src, nextHop>> \notin DOMAIN linkToLocalInterface THEN <<>>
        ELSE IF <<nextHop, src>> \notin DOMAIN linkToLocalInterface THEN <<>>
        ELSE << [dest |-> satelliteAddress[dst],
                 gateway |-> linkToLocalInterface[<<nextHop, src>>].addr,
                 interface |-> linkToLocalInterface[<<src, nextHop>>].interface,
                 dst |-> dst] >>

\* the routes src gets from the inner loop over dst = lo .. hi-1, in call order
RECURSIVE RoutesOfFrom(_, _, _, _, _, _)
RoutesOfFrom(m_nextHop, linkToLocalInterface, satelliteAddress, src, lo, hi) ==
    IF lo >= hi THEN <<>>
    ELSE IF hi = lo + 1
    THEN (IF src = lo THEN <<>>
          ELSE HostRoute(m_nextHop, linkToLocalInterface, satelliteAddress, src, lo))
    ELSE RoutesOfFrom(m_nextHop, linkToLocalInterface, satelliteAddress,
                      src, lo, (lo + hi) \div 2)
         \o RoutesOfFrom(m_nextHop, linkToLocalInterface, satelliteAddress,
                         src, (lo + hi) \div 2, hi)

\* bindings, destination addresses and, per satellite, the host routes in the order
\* AddHostRouteTo was called
InstallStaticRoutes(satellitesN, m_nextHop, islInterfaces, ipv4In) ==
    LET l2l == BuildLinkToLocalInterface(islInterfaces, ipv4In)
        sa == BuildSatelliteAddress(satellitesN, ipv4In)
    IN  [linkToLocalInterface |-> l2l,
         satelliteAddress |-> sa,
         staticRouting |-> [src \in Nodes(satellitesN) |->
                                RoutesOfFrom(m_nextHop, l2l, sa, src, 0, satellitesN)]]

(***************************************************************************)
(* State                                                                   *)
(***************************************************************************)
VARIABLES
    pc,                    \* where the setup sequence stands
    genArgs,               \* <<numSatellites, neighborsPerSat>> given to the generator, or <<>>
    topology,              \* the IslTopology
    routes,                \* m_nextHop of the RoutingTables returned by ComputeStaticRoutes
    routed,                \* has ComputeStaticRoutes returned?
    allIslDevices,         \* the NetDeviceContainer of CreateIslMesh
    createdLinks,          \* the pairs CreateIslMesh has created a link for
    ipv4,                  \* per satellite, its Ipv4 interface list
    islInterfaces,         \* the Ipv4InterfaceContainer of AssignIslAddresses
    linkToLocalInterface,  \* the bindings InstallStaticRoutes builds in step 1
    satelliteAddress,      \* the destination addresses it builds in step 2
    staticRouting,         \* per satellite, the host routes installed
    sets,                  \* number of SetNextHop calls made on a hand-filled table
    walk,                  \* the GetHopCount call in progress: its dst and its locals
    probe,                 \* one pass of the AssignIslAddresses loop on its own: i, subnet, base
    connectivity,          \* the value ComputeMeshConnectivity returned, as a fraction
    par,                   \* the per-source computations run as separate workers
    traffic,               \* main's mode flags, the flows of step 8 and the PacketTracer
    search,                \* what BFS and Dijkstra returned for one source
    reorder,               \* a reordering of the topology's neighbor lists and its routes
    frame                  \* the last call made on a RoutingTables object on its own, with
                           \* the record of what SetNextHop has stored so far

netVars == <<allIslDevices, createdLinks, ipv4, islInterfaces>>
installVars == <<linkToLocalInterface, satelliteAddress, staticRouting>>
tableVars == <<sets, walk, frame>>
vars == <<pc, genArgs, topology, routes, routed, netVars, installVars, tableVars, probe,
          connectivity, reorder, par, traffic, search>>

\* main before its command line is parsed; the PacketTracer as constructed
NoTraffic == [stage |-> "flags", groundNodes |-> DefaultGroundNodes,
              satelliteOnly |-> FALSE, groundOnly |-> FALSE, groundRouting |-> "aodv",
              flows |-> {}, installed |-> FALSE,
              m_controlBytesTx |-> 0, m_controlBytesRx |-> 0,
              m_dataBytesTx |-> 0, m_dataBytesRx |-> 0,
              seen |-> <<>>]

\* neither search has been called
NoSearch == [src |-> 0, reachable |-> <<>>, dist |-> <<>>]

\* no workers started
NoPar == [sync |-> TRUE, phase |-> EmptyMap, dst |-> EmptyMap, row |-> EmptyMap,
          snap |-> EmptyMap]

\* no reordered topology has been routed
NoReorder == [topology |-> IslTopology, routes |-> EmptyMap]

\* no call made yet, nothing stored
NoFrame == [op |-> "none", src |-> 0, dst |-> 0, ret |-> 0, all |-> EmptyMap,
            stored |-> EmptyMap]

\* ComputeMeshConnectivity has not been called
NotMeasured == [num |-> -1, den |-> 1]

\* no loop pass under examination
NoProbe == [stage |-> "idle", i |-> 0, subnet |-> <<>>, base |-> <<>>]

\* no GetHopCount call in progress
NoWalk == [src |-> 0, dst |-> 0, w |-> HopStart(0, 0)]

\* number of neighbor entries held by a hand-built topology
EntryCount(T) ==
    LET RECURSIVE Sum(_)
        Sum(K) == IF K = {} THEN 0
                  ELSE LET k == CHOOSE x \in K : TRUE
                       IN  Len(T.neighbors[k]) + Sum(K \ {k})
    IN  Sum(DOMAIN T.neighbors)

Init ==
    /\ pc = "start"
    /\ genArgs = <<>>
    /\ topology = IslTopology
    /\ routes = EmptyMap
    /\ routed = FALSE
    /\ allIslDevices = <<>>
    /\ createdLinks = {}
    /\ ipv4 = EmptyMap
    /\ islInterfaces = <<>>
    /\ linkToLocalInterface = EmptyMap
    /\ satelliteAddress = EmptyMap
    /\ staticRouting = EmptyMap
    /\ sets = 0
    /\ walk = NoWalk
    /\ probe = NoProbe
    /\ connectivity = NotMeasured
    /\ frame = NoFrame
    /\ reorder = NoReorder
    /\ par = NoPar
    /\ traffic = NoTraffic
    /\ search = NoSearch

\* main: topology = GenerateWalkerDeltaTopology(satellites, 4); tests use other degrees
Generate ==
    /\ pc = "start"
    /\ \E n \in SatCounts, k \in NeighborCounts :
          /\ genArgs' = <<n, k>>
          /\ topology' = GenerateWalkerDeltaTopology(n, k)
    /\ pc' = "topology"
    /\ UNCHANGED <<routes, routed, netVars, installVars, tableVars, probe, connectivity, reorder, par, traffic, search>>

\* a caller fills an IslTopology by hand: topology.numSatellites = n
NewTopology ==
    /\ pc = "start"
    /\ \E n \in 0 .. MaxSat : topology' = [IslTopology EXCEPT !.numSatellites = n]
    /\ pc' = "build"
    /\ UNCHANGED <<genArgs, routes, routed, netVars, installVars, tableVars, probe, connectivity, reorder,
                   par, traffic, search>>

\* topology.neighbors[a].push_back(b)
AddNeighbor ==
    /\ pc = "build"
    /\ EntryCount(topology) < MaxEntries
    /\ \E a \in Nodes(topology.numSatellites), b \in Nodes(topology.numSatellites) :
          topology' = PushNeighbor(topology, a, b)
    /\ UNCHANGED <<pc, genArgs, routes, routed, netVars, installVars, tableVars, probe, connectivity,
                   reorder, par, traffic, search>>

\* a stand-alone call: RoutingTables routes = ComputeStaticRoutes(topology)
RoutesOnly ==
    /\ pc \in {"build", "topology"}
    /\ routes' = ComputeStaticRoutes(topology)
    /\ routed' = TRUE
    /\ pc' = "routes"
    /\ UNCHANGED <<genArgs, topology, netVars, installVars, tableVars, probe, connectivity, reorder, par, traffic, search>>

\* the internet stack on satellitesN nodes, then CreateIslMesh(satNodes, topology)
MeshStep(satellitesN, asserts, stray) ==
    /\ LET r == CreateIslMesh(satellitesN, topology, asserts, stray)
       IN  /\ allIslDevices' = r.devices
           /\ createdLinks' = r.createdLinks
           /\ pc' = IF r.ok THEN "mesh" ELSE "aborted"
    /\ ipv4' = LoopbackOnly(satellitesN)
    /\ UNCHANGED <<genArgs, topology, routes, routed, islInterfaces, installVars, tableVars, probe, connectivity,
                   reorder, par, traffic, search>>

\* main step 4 and 5: satNodes was created with the count the topology was generated for
DoCreateIslMesh ==
    /\ pc \in {"build", "topology"}
    /\ \E asserts \in AssertBuilds : MeshStep(topology.numSatellites, asserts, -1)

\* satNodes.GetN()
NodeCount == Cardinality(DOMAIN ipv4)

\* main step 6: islInterfaces = creator.AssignIslAddresses(islDevices)
DoAssignIslAddresses ==
    /\ pc = "mesh"
    /\ LET r == AssignIslAddresses(allIslDevices, ipv4)
       IN  /\ ipv4' = r.ipv4
           /\ islInterfaces' = r.interfaces
    /\ pc' = "addressed"
    /\ UNCHANGED <<genArgs, topology, routes, routed, allIslDevices, createdLinks, installVars, tableVars, probe, connectivity,
                   reorder, par, traffic, search>>

\* main step 7, static: routes = ComputeStaticRoutes(topology)
DoComputeStaticRoutes ==
    /\ pc = "addressed"
    /\ routes' = ComputeStaticRoutes(topology)
    /\ routed' = TRUE
    /\ pc' = "routed"
    /\ UNCHANGED <<genArgs, topology, netVars, installVars, tableVars, probe, connectivity, reorder, par, traffic, search>>

\* main step 7, static: creator.InstallStaticRoutes(satNodes, routes, islInterfaces)
DoInstallStaticRoutes ==
    /\ pc = "routed"
    /\ LET r == InstallStaticRoutes(NodeCount, routes, islInterfaces, ipv4)
       IN  /\ linkToLocalInterface' = r.linkToLocalInterface
           /\ satelliteAddress' = r.satelliteAddress
           /\ staticRouting' = r.staticRouting
    /\ pc' = "installed"
    /\ UNCHANGED <<genArgs, topology, routes, routed, netVars, tableVars, probe, connectivity, reorder, par, traffic, search>>

Next ==
    \/ Generate
    \/ NewTopology
    \/ AddNeighbor
    \/ RoutesOnly
    \/ DoCreateIslMesh
    \/ DoAssignIslAddresses
    \/ DoComputeStaticRoutes
    \/ DoInstallStaticRoutes

Spec == Init /\ [][Next]_vars

(***************************************************************************)
(* A RoutingTables object filled by hand with SetNextHop and queried with  *)
(* GetHopCount, one pass of its while loop per step.  GetHopCount(src,dst) *)
(* looks up (current, dst) only, so the table is filled for one            *)
(* destination, the one the first SetNextHop names (kept in walk.dst).     *)
(***************************************************************************)
TableNodes == 0 .. MaxTableNode

TableDsts == IF sets = 0 THEN TableNodes ELSE {walk.dst}

\* routes.SetNextHop(src, dst, nextHop)
TableSetNextHop ==
    /\ pc = "start"
    /\ sets < MaxSets
    /\ \E src \in TableNodes, dst \in TableDsts, nextHop \in TableNodes :
          /\ routes' = SetNextHop(routes, src, dst, nextHop)
          /\ walk' = [NoWalk EXCEPT !.dst = dst]
    /\ sets' = sets + 1
    /\ UNCHANGED <<pc, genArgs, topology, routed, netVars, installVars, probe, connectivity,
                   frame, reorder, par, traffic, search>>

\* GetHopCount(routes, src, dst) is entered
HopCall ==
    /\ pc = "start"
    /\ \E src \in TableNodes, dst \in TableDsts :
          walk' = [src |-> src, dst |-> dst, w |-> HopStart(src, dst)]
    /\ pc' = "walking"
    /\ UNCHANGED <<genArgs, topology, routes, routed, netVars, installVars, sets, probe,
                   connectivity, frame, reorder, par, traffic, search>>

\* one pass of the while loop
HopStep ==
    /\ pc = "walking"
    /\ ~walk.w.done
    /\ walk' = [walk EXCEPT !.w = HopIter(routes, walk.dst, walk.w)]
    /\ UNCHANGED <<pc, genArgs, topology, routes, routed, netVars, installVars, sets, probe,
                   connectivity, frame, reorder, par, traffic, search>>

\* GetHopCount returns walk.w.ret
HopReturn ==
    /\ pc = "walking"
    /\ walk.w.done
    /\ pc' = "walked"
    /\ UNCHANGED <<genArgs, topology, routes, routed, netVars, installVars, tableVars, probe, connectivity,
                   reorder, par, traffic, search>>

NextTable ==
    \/ TableSetNextHop
    \/ HopCall
    \/ HopStep
    \/ HopReturn

SpecTable == Init /\ [][NextTable]_vars

\* the walk is sequential code: a pass that can run does run
FairSpecTable == SpecTable /\ WF_vars(HopStep) /\ WF_vars(HopReturn)

(***************************************************************************)
(* One pass of the AssignIslAddresses loop examined on its own, for a      *)
(* device container long enough for the loop to reach link index i.        *)
(***************************************************************************)
\* the low indices, and those around the first one whose i / 64 is no octet
LinkIndexes ==
    (0 .. MaxLinkIndex) \cup ((256 * LINKS_PER_OCTET - 2) .. (256 * LINKS_PER_OCTET + 2))

\* for (uint32_t i = 0; i < linkCount; ++i) arrives at pass i
EnterPass ==
    /\ pc = "start"
    /\ sets = 0
    /\ probe.stage = "idle"
    /\ \E i \in LinkIndexes : probe' = [NoProbe EXCEPT !.stage = "pass", !.i = i]
    /\ UNCHANGED <<pc, genArgs, topology, routes, routed, netVars, installVars, tableVars,
                   connectivity, reorder, par, traffic, search>>

\* subnet << "10." << (i / 64) << "." << ((i % 64) * 4) << ".0"
FormatSubnet ==
    /\ probe.stage = "pass"
    /\ probe' = [probe EXCEPT !.stage = "formatted", !.subnet = SubnetBase(probe.i)]
    /\ UNCHANGED <<pc, genArgs, topology, routes, routed, netVars, installVars, tableVars,
                   connectivity, reorder, par, traffic, search>>

\* address.SetBase(subnet.str().c_str(), "255.255.255.252")
SetBase ==
    /\ probe.stage = "formatted"
    /\ \E lib \in Ipv4Libraries :
          LET r == ParseIpv4(probe.subnet, lib)
          IN  probe' = [probe EXCEPT !.stage = IF r.ok THEN "based" ELSE "aborted",
                                     !.base = r.addr]
    /\ UNCHANGED <<pc, genArgs, topology, routes, routed, netVars, installVars, tableVars,
                   connectivity, reorder, par, traffic, search>>

NextSubnet ==
    \/ EnterPass
    \/ FormatSubnet
    \/ SetBase

SpecSubnet == Init /\ [][NextSubnet]_vars

(***************************************************************************)
(* CreateIslMesh as a library call: a test hands it a node container of    *)
(* any size together with a hand-built topology, then goes on with the     *)
(* later steps when the call returns.                                      *)
(***************************************************************************)
NodeCounts == 0 .. MaxSat

CallCreateIslMesh ==
    /\ pc = "build"
    /\ \E satellitesN \in NodeCounts, asserts \in AssertBuilds :
          \E stray \in StrayReads(satellitesN) : MeshStep(satellitesN, asserts, stray)

NextMesh ==
    \/ NewTopology
    \/ AddNeighbor
    \/ CallCreateIslMesh
    \/ DoAssignIslAddresses
    \/ DoComputeStaticRoutes
    \/ DoInstallStaticRoutes

SpecMesh == Init /\ [][NextMesh]_vars

(***************************************************************************)
(* The connectivity analysis of a topology, generated or filled by hand.   *)
(***************************************************************************)
\* double connectivity = ComputeMeshConnectivity(topology)
DoComputeMeshConnectivity ==
    /\ pc \in {"build", "topology"}
    /\ connectivity' = ComputeMeshConnectivity(topology)
    /\ pc' = "measured"
    /\ UNCHANGED <<genArgs, topology, routes, routed, netVars, installVars, tableVars, probe, reorder, par, traffic, search>>

NextConnectivity ==
    \/ Generate
    \/ NewTopology
    \/ AddNeighbor
    \/ DoComputeMeshConnectivity

SpecConnectivity == Init /\ [][NextConnectivity]_vars

(***************************************************************************)
(* A RoutingTables object on its own: any sequence of SetNextHop,          *)
(* GetNextHop, GetAllNextHops and GetHopCount calls.  frame.stored records *)
(* what the SetNextHop calls were given; the three reads are const and     *)
(* leave m_nextHop as it is.                                               *)
(***************************************************************************)
FrameNodes == 0 .. MaxFrameNode

\* routes.SetNextHop(src, dst, nextHop)
FrameSetNextHop ==
    /\ pc \in {"start", "frame"}
    /\ sets < MaxSets
    /\ \E src \in FrameNodes, dst \in FrameNodes, nextHop \in FrameNodes :
          /\ routes' = SetNextHop(routes, src, dst, nextHop)
          /\ frame' = [NoFrame EXCEPT !.op = "SetNextHop", !.src = src, !.dst = dst,
                                      !.stored = MapPut(frame.stored, <<src, dst>>, nextHop)]
    /\ sets' = sets + 1
    /\ pc' = "frame"
    /\ UNCHANGED <<genArgs, topology, routed, netVars, installVars, walk, probe, connectivity, reorder, par, traffic, search>>

\* routes.GetNextHop(src, dst)
FrameGetNextHop ==
    /\ pc \in {"start", "frame"}
    /\ \E src \in FrameNodes, dst \in FrameNodes :
          frame' = [NoFrame EXCEPT !.op = "GetNextHop", !.src = src, !.dst = dst,
                                  !.ret = GetNextHop(routes, src, dst),
                                  !.stored = frame.stored]
    /\ pc' = "frame"
    /\ UNCHANGED <<genArgs, topology, routes, routed, netVars, installVars, sets, walk, probe,
                   connectivity, reorder, par, traffic, search>>

\* routes.GetAllNextHops(src)
FrameGetAllNextHops ==
    /\ pc \in {"start", "frame"}
    /\ \E src \in FrameNodes :
          frame' = [NoFrame EXCEPT !.op = "GetAllNextHops", !.src = src,
                                  !.all = GetAllNextHops(routes, src),
                                  !.stored = frame.stored]
    /\ pc' = "frame"
    /\ UNCHANGED <<genArgs, topology, routes, routed, netVars, installVars, sets, walk, probe,
                   connectivity, reorder, par, traffic, search>>

\* GetHopCount(routes, src, dst), the whole call
FrameGetHopCount ==
    /\ pc \in {"start", "frame"}
    /\ \E src \in FrameNodes, dst \in FrameNodes :
          frame' = [NoFrame EXCEPT !.op = "GetHopCount", !.src = src, !.dst = dst,
                                  !.ret = GetHopCount(routes, src, dst),
                                  !.stored = frame.stored]
    /\ pc' = "frame"
    /\ UNCHANGED <<genArgs, topology, routes, routed, netVars, installVars, sets, walk, probe,
                   connectivity, reorder, par, traffic, search>>

NextFrame ==
    \/ FrameSetNextHop
    \/ FrameGetNextHop
    \/ FrameGetAllNextHops
    \/ FrameGetHopCount

SpecFrame == Init /\ [][NextFrame]_vars

(***************************************************************************)
(* ComputeStaticRoutes on two topologies with the same edges: the second   *)
(* has two adjacent entries of one neighbor list exchanged.  Any other     *)
(* order of the lists is a sequence of such exchanges.                     *)
(***************************************************************************)
\* the list with its entries at positions i and i + 1 exchanged
SwapAt(list, i) ==
    [k \in DOMAIN list |-> IF k = i THEN list[i + 1] ELSE IF k = i + 1 THEN list[i] ELSE list[k]]

\* routes = ComputeStaticRoutes(topology) and the same call on the reordered topology
RoutesReordered ==
    /\ pc \in {"build", "topology"}
    /\ \E a \in DOMAIN topology.neighbors :
          \E i \in 1 .. (Len(topology.neighbors[a]) - 1) :
              LET T2 == [topology EXCEPT !.neighbors[a] = SwapAt(@, i)]
              IN  reorder' = [topology |-> T2, routes |-> ComputeStaticRoutes(T2)]
    /\ routes' = ComputeStaticRoutes(topology)
    /\ routed' = TRUE
    /\ pc' = "reordered"
    /\ UNCHANGED <<genArgs, topology, netVars, installVars, tableVars, probe, connectivity, par, traffic, search>>

\* the list with a second copy of its entry at position i put in front or at the end
DuplicateAt(list, i, front) ==
    IF front THEN <<list[i]>> \o list ELSE Append(list, list[i])

\* routes = ComputeStaticRoutes(topology) and the same call on the topology with one
\* entry of one neighbor list doubled
RoutesDuplicated ==
    /\ pc \in {"build", "topology"}
    /\ \E a \in DOMAIN topology.neighbors :
          \E i \in DOMAIN topology.neighbors[a], front \in BOOLEAN :
              LET T2 == [topology EXCEPT !.neighbors[a] = DuplicateAt(@, i, front)]
              IN  reorder' = [topology |-> T2, routes |-> ComputeStaticRoutes(T2)]
    /\ routes' = ComputeStaticRoutes(topology)
    /\ routed' = TRUE
    /\ pc' = "reordered"
    /\ UNCHANGED <<genArgs, topology, netVars, installVars, tableVars, probe, connectivity, par, traffic, search>>

NextOrder ==
    \/ Generate
    \/ NewTopology
    \/ AddNeighbor
    \/ RoutesReordered
    \/ RoutesDuplicated

SpecOrder == Init /\ [][NextOrder]_vars

(***************************************************************************)
(* The body of the loop over src in ComputeStaticRoutes run once per       *)
(* source by a worker of its own, the workers sharing the RoutingTables    *)
(* object.  The search of a worker uses locals only; its extraction loop   *)
(* stores one entry per pass.  par.sync tells whether the shared object is *)
(* locked around SetNextHop.  Without the lock, m_nextHop[src] inserting   *)
(* the row of src into the outer std::map races with the insertions of the *)
(* other workers: the insertion is then a read of the outer map followed   *)
(* by a write, and a row inserted in between can be lost.  The unlocked    *)
(* run is made with two workers, which is all the race needs.              *)
(***************************************************************************)
\* the ring 0 - 1 - ... - n-1 - 0 and the one-way chain 0 -> 1 -> ... -> n-1
RingTopology(n) ==
    [numSatellites |-> n, numLinks |-> n,
     neighbors |-> [a \in Nodes(n) |-> << (a + 1) % n, (a + n - 1) % n >>]]
ChainTopology(n) ==
    [numSatellites |-> n, numLinks |-> n - 1,
     neighbors |-> [a \in Nodes(n - 1) |-> << a + 1 >>]]

\* mutant: the entry is stored under (dst, src)
ExtractEntry_Transposed(m_nextHop, row, src, dst) == SetNextHop(m_nextHop, dst, src, row[dst])

\* routes.SetNextHop(src, dst, current) of the extraction loop
ExtractEntry(m_nextHop, row, src, dst) == SetNextHop(m_nextHop, src, dst, row[dst])

StartWorkers ==
    /\ pc = "start"
    /\ sets = 0
    /\ \E n \in 2 .. MaxWorkers, sync \in BOOLEAN :
          /\ sync \/ n = 2
          /\ \E T \in {RingTopology(n), ChainTopology(n)} : topology' = T
          /\ par' = [sync |-> sync,
                     phase |-> [s \in Nodes(n) |-> "idle"],
                     dst |-> [s \in Nodes(n) |-> 0],
                     row |-> [s \in Nodes(n) |-> EmptyMap],
                     snap |-> [s \in Nodes(n) |-> EmptyMap]]
    /\ pc' = "parallel"
    /\ UNCHANGED <<genArgs, routes, routed, netVars, installVars, tableVars, probe,
                   connectivity, reorder, traffic, search>>

\* the search from src: dist[], prev[], visited[] and pq are locals of the pass
WorkerSearch ==
    \E src \in DOMAIN par.phase :
       /\ pc = "parallel"
       /\ par.phase[src] = "idle"
       /\ par' = [par EXCEPT !.phase[src] = "extract", !.row[src] = RouteRow(topology, src)]
       /\ UNCHANGED <<pc, genArgs, topology, routes, routed, netVars, installVars, tableVars,
                      probe, connectivity, reorder, traffic, search>>

\* one pass of the extraction loop: continue, or SetNextHop as a whole, or the read
\* of the outer map when the row of src is not in it and nothing locks the object
WorkerExtract ==
    \E src \in DOMAIN par.phase :
       /\ pc = "parallel"
       /\ par.phase[src] = "extract"
       /\ par.dst[src] < topology.numSatellites
       /\ LET dst == par.dst[src]
          IN  IF dst \notin DOMAIN par.row[src]
              THEN /\ par' = [par EXCEPT !.dst[src] = dst + 1]
                   /\ UNCHANGED routes
              ELSE IF par.sync \/ src \in DOMAIN routes
              THEN /\ routes' = ExtractEntry(routes, par.row[src], src, dst)
                   /\ par' = [par EXCEPT !.dst[src] = dst + 1]
              ELSE /\ par' = [par EXCEPT !.phase[src] = "loaded", !.snap[src] = routes]
                   /\ UNCHANGED routes
       /\ UNCHANGED <<pc, genArgs, topology, routed, netVars, installVars, tableVars, probe,
                      connectivity, reorder, traffic, search>>

\* the write that ends an unlocked insertion: the outer map as read, plus the row
WorkerStore ==
    \E src \in DOMAIN par.phase :
       /\ pc = "parallel"
       /\ par.phase[src] = "loaded"
       /\ routes' = ExtractEntry(par.snap[src], par.row[src], src, par.dst[src])
       /\ par' = [par EXCEPT !.phase[src] = "extract", !.dst[src] = @ + 1,
                             !.snap[src] = EmptyMap]
       /\ UNCHANGED <<pc, genArgs, topology, routed, netVars, installVars, tableVars, probe,
                      connectivity, reorder, traffic, search>>

\* the extraction loop of src is over
WorkerDone ==
    \E src \in DOMAIN par.phase :
       /\ pc = "parallel"
       /\ par.phase[src] = "extract"
       /\ par.dst[src] = topology.numSatellites
       /\ par' = [par EXCEPT !.phase[src] = "done"]
       /\ UNCHANGED <<pc, genArgs, topology, routes, routed, netVars, installVars, tableVars,
                      probe, connectivity, reorder, traffic, search>>

\* all workers joined: return routes
JoinWorkers ==
    /\ pc = "parallel"
    /\ \A src \in DOMAIN par.phase : par.phase[src] = "done"
    /\ pc' = "joined"
    /\ routed' = TRUE
    /\ UNCHANGED <<genArgs, topology, routes, netVars, installVars, tableVars, probe,
                   connectivity, reorder, par, traffic, search>>

NextParallel ==
    \/ StartWorkers
    \/ WorkerSearch
    \/ WorkerExtract
    \/ WorkerStore
    \/ WorkerDone
    \/ JoinWorkers

SpecParallel == Init /\ [][NextParallel]_vars

(***************************************************************************)
(* The test traffic of main (step 8) and the PacketTracer that classifies  *)
(* what the ground nodes send and receive at the IP layer.                 *)
(***************************************************************************)
\* ground node counts that make each "groundNodes > k" test of step 8 go both ways
GroundNodeCounts == {0, 13, 18, DefaultGroundNodes}

GroundRoutings == {"aodv", "hwmp"}

\* one flow of step 8: the OnOff sender on node src of the layer, towards port of node dst
Flow(layer, id, src, dst, port) ==
    [layer |-> layer, id |-> id, src |-> src, dst |-> dst, port |-> port]

\* the satellite flows: tests 1 and 2, and flows 3 to 5 of the satellite-only mode
SatelliteFlows(satelliteOnly, groundOnly) ==
    (IF ~groundOnly
       THEN {Flow("sat", 1, 0, 1, basePort), Flow("sat", 2, 0, 23, basePort + 1)}
       ELSE {})
    \cup
    (IF satelliteOnly
       THEN {Flow("sat", 3, 3, 10, basePort + 2), Flow("sat", 4, 6, 13, basePort + 3),
             Flow("sat", 5, 9, 20, basePort + 4)}
       ELSE {})

\* the ground mesh flows 1 to 5
GroundFlows(groundNodes, satelliteOnly) ==
    IF groundNodes > 0 /\ ~satelliteOnly
      THEN {Flow("ground", 1, 0, groundNodes - 1, basePort + 2)}
           \cup (IF groundNodes > 14 THEN {Flow("ground", 2, 5, 14, basePort + 3)} ELSE {})
           \cup (IF groundNodes > 17 THEN {Flow("ground", 3, 3, 17, basePort + 4)} ELSE {})
           \cup (IF groundNodes > 12 THEN {Flow("ground", 4, 8, 12, basePort + 5)} ELSE {})
           \cup (IF groundNodes > 18 THEN {Flow("ground", 5, 2, 18, basePort + 6)} ELSE {})
      ELSE {}

\* a packet at the IP layer: which headers it carries and what they say
Packet(ipv4Header, protocol, udpHeader, destPort, size) ==
    [ipv4Header |-> ipv4Header, protocol |-> protocol, udpHeader |-> udpHeader,
     destPort |-> destPort, size |-> size]

\* a packet of an OnOff application: 512 bytes of payload behind UDP and IPv4 headers
AppPacket(flow) == Packet(TRUE, UDP_PROTOCOL, TRUE, flow.port, 540)

\* what the routing protocols and the stack send: an AODV message on UDP port 654, an
\* ICMP message, and a UDP fragment without its UDP header
ControlPackets ==
    {Packet(TRUE, UDP_PROTOCOL, TRUE, 654, 52), Packet(TRUE, 1, FALSE, 0, 56),
     Packet(TRUE, UDP_PROTOCOL, FALSE, 0, 40)}

IsDataPacket(packet) ==
    IF ~packet.ipv4Header THEN FALSE
    ELSE IF packet.protocol # UDP_PROTOCOL THEN FALSE
    ELSE IF ~packet.udpHeader THEN FALSE
    ELSE packet.destPort >= DATA_PORT_MIN /\ packet.destPort <= DATA_PORT_MAX

\* main: the mode flags are parsed, validated and adjusted
ParseFlags ==
    /\ traffic.stage = "flags"
    /\ \E g \in GroundNodeCounts, so \in BOOLEAN, go \in BOOLEAN, gr \in GroundRoutings :
          traffic' = IF so /\ go
                       THEN [traffic EXCEPT !.stage = "exit", !.groundNodes = g,
                                            !.satelliteOnly = so, !.groundOnly = go,
                                            !.groundRouting = gr]
                       ELSE [traffic EXCEPT !.stage = "parsed",
                                            !.groundNodes = IF so /\ g > 0 THEN 0 ELSE g,
                                            !.satelliteOnly = so, !.groundOnly = go,
                                            !.groundRouting = gr]
    /\ UNCHANGED <<pc, genArgs, topology, routes, routed, netVars, installVars, tableVars, probe,
                   connectivity, reorder, par, search>>

\* main, step 8: the senders and sinks are installed
CreateTestTraffic ==
    /\ traffic.stage = "parsed"
    /\ traffic' = [traffic EXCEPT
                      !.stage = "configured",
                      !.flows = SatelliteFlows(traffic.satelliteOnly, traffic.groundOnly)
                                \cup GroundFlows(traffic.groundNodes, traffic.satelliteOnly)]
    /\ UNCHANGED <<pc, genArgs, topology, routes, routed, netVars, installVars, tableVars, probe,
                   connectivity, reorder, par, search>>

\* main: tracer.Install(groundDevices) unless there is no ground layer or it runs HWMP
InstallTracer ==
    /\ traffic.stage = "configured"
    /\ traffic' = [traffic EXCEPT
                      !.stage = "running",
                      !.installed = traffic.groundNodes > 0 /\ traffic.groundRouting # "hwmp"]
    /\ UNCHANGED <<pc, genArgs, topology, routes, routed, netVars, installVars, tableVars, probe,
                   connectivity, reorder, par, search>>

\* the packets the IP layer of a ground node sends or receives while the simulation runs
GroundPackets ==
    {[packet |-> AppPacket(f), flow |-> f.id] : f \in {g \in traffic.flows : g.layer = "ground"}}
    \cup {[packet |-> p, flow |-> 0] : p \in ControlPackets}

TxCallback ==
    /\ traffic.stage = "running"
    /\ traffic.installed
    /\ Len(traffic.seen) < MaxPackets
    /\ \E e \in GroundPackets :
          traffic' = IF IsDataPacket(e.packet)
                       THEN [traffic EXCEPT !.m_dataBytesTx = @ + e.packet.size,
                                            !.seen = Append(@, e @@ [tx |-> TRUE])]
                       ELSE [traffic EXCEPT !.m_controlBytesTx = @ + e.packet.size,
                                            !.seen = Append(@, e @@ [tx |-> TRUE])]
    /\ UNCHANGED <<pc, genArgs, topology, routes, routed, netVars, installVars, tableVars, probe,
                   connectivity, reorder, par, search>>

RxCallback ==
    /\ traffic.stage = "running"
    /\ traffic.installed
    /\ Len(traffic.seen) < MaxPackets
    /\ \E e \in GroundPackets :
          traffic' = IF IsDataPacket(e.packet)
                       THEN [traffic EXCEPT !.m_dataBytesRx = @ + e.packet.size,
                                            !.seen = Append(@, e @@ [tx |-> FALSE])]
                       ELSE [traffic EXCEPT !.m_controlBytesRx = @ + e.packet.size,
                                            !.seen = Append(@, e @@ [tx |-> FALSE])]
    /\ UNCHANGED <<pc, genArgs, topology, routes, routed, netVars, installVars, tableVars, probe,
                   connectivity, reorder, par, search>>

NextTraffic ==
    \/ ParseFlags
    \/ CreateTestTraffic
    \/ InstallTracer
    \/ TxCallback
    \/ RxCallback

SpecTraffic == Init /\ [][NextTraffic]_vars

(***************************************************************************)
(* BFS and Dijkstra called on the same topology and source.  The topology  *)
(* is generated or filled by hand; a hand-filled list may name the id      *)
(* numSatellites, which is no satellite, and the source may be that id.    *)
(***************************************************************************)
\* topology.neighbors[a].push_back(topology.numSatellites)
AddStrayNeighbor ==
    /\ pc = "build"
    /\ EntryCount(topology) < MaxEntries
    /\ \E a \in Nodes(topology.numSatellites) :
          topology' = PushNeighbor(topology, a, topology.numSatellites)
    /\ UNCHANGED <<pc, genArgs, routes, routed, netVars, installVars, tableVars, probe, connectivity,
                   reorder, par, traffic, search>>

\* reachable = BFS(topology, src); dist = Dijkstra(topology, src)
CallSearches ==
    /\ pc \in {"build", "topology"}
    /\ \E src \in 0 .. topology.numSatellites :
          search' = [src |-> src, reachable |-> BFS(topology, src),
                     dist |-> Dijkstra(topology, src)]
    /\ pc' = "searched"
    /\ UNCHANGED <<genArgs, topology, routes, routed, netVars, installVars, tableVars, probe,
                   connectivity, reorder, par, traffic>>

NextSearch ==
    \/ Generate
    \/ NewTopology
    \/ AddNeighbor
    \/ AddStrayNeighbor
    \/ CallSearches

SpecSearch == Init /\ [][NextSearch]_vars

(***************************************************************************)
(* GetHopCount on the table of a chain 0 -> 1 -> ... -> len: every node    *)
(* before len has len's column filled with its successor.  The chains are  *)
(* short ones and those whose length is about the iteration allowance.     *)
(***************************************************************************)
ChainLengths == (1 .. MaxChain) \cup ((HOP_LIMIT - 1) .. (HOP_LIMIT + 2))

\* the table after SetNextHop(i, len, i + 1) for i = 0 .. len-1
ChainRoutes(len) == [i \in 0 .. (len - 1) |-> MapPut(EmptyMap, len, i + 1)]

\* GetHopCount(routes, 0, len) is entered on the table of a chain
ChainCall ==
    /\ pc = "start"
    /\ sets = 0
    /\ \E len \in ChainLengths :
          /\ routes' = ChainRoutes(len)
          /\ walk' = [src |-> 0, dst |-> len, w |-> HopStart(0, len)]
    /\ pc' = "walking"
    /\ UNCHANGED <<genArgs, topology, routed, netVars, installVars, sets, frame, probe,
                   connectivity, reorder, par, traffic, search>>

NextChain ==
    \/ ChainCall
    \/ HopStep
    \/ HopReturn

SpecChain == Init /\ [][NextChain]_vars

(***************************************************************************)
(* Graph-theoretic reference notions the claims are stated against.        *)
(***************************************************************************)
Succ(T, u) == Range(NeighborsOf(T, u)) \cap Nodes(T.numSatellites)

RECURSIVE RefExpand(_, _, _, _)
RefExpand(T, dist, frontier, k) ==
    IF frontier = {} THEN dist
    ELSE LET next == (UNION {Succ(T, u) : u \in frontier})
                        \ {v \in DOMAIN dist : dist[v] # UINT32_MAX}
         IN  RefExpand(T, [v \in DOMAIN dist |-> IF v \in next THEN k + 1 ELSE dist[v]],
                       next, k + 1)

\* MinEdges(T)[s][d]: least number of edges of a path s -> d, UINT32_MAX if none
MinEdges(T) ==
    [s \in Nodes(T.numSatellites) |->
        RefExpand(T, [v \in Nodes(T.numSatellites) |-> IF v = s THEN 0 ELSE UINT32_MAX],
                  {s}, 0)]

SetMax(S) == IF S = {} THEN 0 ELSE CHOOSE x \in S : \A y \in S : y <= x

\* longest shortest path between two mutually reachable nodes
Diameter(T) ==
    LET me == MinEdges(T)
    IN  SetMax({me[s][d] : s \in Nodes(T.numSatellites), d \in Nodes(T.numSatellites)}
                \ {UINT32_MAX})

\* following GetNextHop from cur arrives at dst within budget steps, neighbor to neighbor
RECURSIVE ChainReaches(_, _, _, _, _)
ChainReaches(m, T, cur, dst, budget) ==
    IF cur = dst THEN TRUE
    ELSE /\ budget > 0
         /\ LET nh == GetNextHop(m, cur, dst)
            IN  /\ nh \in Range(NeighborsOf(T, cur))
                /\ ChainReaches(m, T, nh, dst, budget - 1)

IsWalkerMesh == genArgs = <<SUPPORTED_SATS, SUPPORTED_NEIGHBORS>>

(***************************************************************************)
(* C1: for every topology and every reachable pair src # dst, following    *)
(* GetNextHop from src in the table of ComputeStaticRoutes reaches dst in  *)
(* at most diameter-many steps, every step going to a listed neighbor.     *)
(***************************************************************************)
C1_NextHopChainReachesDst ==
    routed =>
        LET me == MinEdges(topology)
            diam == Diameter(topology)
        IN  \A src \in Nodes(topology.numSatellites), dst \in Nodes(topology.numSatellites) :
                (src # dst /\ me[src][dst] # UINT32_MAX) =>
                    ChainReaches(routes, topology, src, dst, diam)

\* a routed hand-built topology with a pair two hops apart
C1_Witness ==
    /\ routed
    /\ genArgs = <<>>
    /\ \E src \in Nodes(topology.numSatellites), dst \in Nodes(topology.numSatellites) :
          /\ MinEdges(topology)[src][dst] = 2
          /\ GetNextHop(routes, src, dst) \notin {dst, UINT32_MAX}

(***************************************************************************)
(* C2: routes are unit-cost shortest paths: for every reachable pair,      *)
(* GetHopCount over the computed table equals the minimum number of edges, *)
(* which is Dijkstra(T,src)[dst]; a listed neighbor B # A is its own next  *)
(* hop from A, and NextHop(0,1) = 1 on the 24/4 mesh.                      *)
(***************************************************************************)
C2_HopCountIsShortest ==
    routed =>
        LET me == MinEdges(topology)
            N == Nodes(topology.numSatellites)
        IN  /\ \A src \in N :
                 LET dj == Dijkstra(topology, src)
                 IN  \A dst \in N :
                        (src # dst /\ me[src][dst] # UINT32_MAX) =>
                            /\ GetHopCount(routes, src, dst) = me[src][dst]
                            /\ GetHopCount(routes, src, dst) = dj[dst]
            /\ \A A \in N : \A B \in Succ(topology, A) \ {A} : GetNextHop(routes, A, B) = B
            /\ IsWalkerMesh => GetNextHop(routes, 0, 1) = 1

\* the routed 24/4 mesh, where some pair is more than two hops apart
C2_Witness ==
    /\ routed
    /\ IsWalkerMesh
    /\ GetHopCount(routes, 0, 1) = 1
    /\ \E dst \in Nodes(topology.numSatellites) : GetHopCount(routes, 0, dst) = 3

(***************************************************************************)
(* C3: the computed table has an entry for (src,dst) exactly when          *)
(* src # dst and dst is reachable from src; GetNextHop(x,x) is the         *)
(* sentinel; no entry names a next hop from which dst cannot be reached.   *)
(***************************************************************************)
C3_EntryIffReachable ==
    routed =>
        LET me == MinEdges(topology)
            N == Nodes(topology.numSatellites)
        IN  /\ DOMAIN routes \subseteq N
            /\ \A src \in DOMAIN routes : DOMAIN routes[src] \subseteq N
            /\ \A src \in N, dst \in N :
                 /\ (dst \in DOMAIN GetAllNextHops(routes, src)) <=>
                        (src # dst /\ me[src][dst] # UINT32_MAX)
                 /\ (dst \in DOMAIN GetAllNextHops(routes, src)) =>
                        /\ GetNextHop(routes, src, dst) \in N
                        /\ me[GetNextHop(routes, src, dst)][dst] # UINT32_MAX
            /\ \A x \in N : GetNextHop(routes, x, x) = UINT32_MAX

\* a routed topology with both a reachable and an unreachable destination
C3_Witness ==
    /\ routed
    /\ \E src \in Nodes(topology.numSatellites) :
          /\ \E dst \in Nodes(topology.numSatellites) :
                GetNextHop(routes, src, dst) # UINT32_MAX
          /\ \E dst \in Nodes(topology.numSatellites) \ {src} :
                /\ MinEdges(topology)[src][dst] = UINT32_MAX
                /\ GetNextHop(routes, src, dst) = UINT32_MAX

(***************************************************************************)
(* C5: the adjacency structure GenerateWalkerDeltaTopology returns is      *)
(* symmetric (B in neighbors(A) iff A in neighbors(B)), no node lists      *)
(* itself and no neighbor ID is >= numSatellites.                          *)
(***************************************************************************)
C5_GeneratedAdjacencySymmetric ==
    genArgs # <<>> =>
        \A A \in DOMAIN topology.neighbors :
            /\ A < topology.numSatellites
            /\ \A B \in Range(topology.neighbors[A]) :
                  /\ B # A
                  /\ B < topology.numSatellites
                  /\ B \in DOMAIN topology.neighbors
                  /\ A \in Range(topology.neighbors[B])

\* the generator has returned the 24/4 mesh
C5_Witness ==
    /\ pc = "topology"
    /\ IsWalkerMesh
    /\ DOMAIN topology.neighbors = Nodes(SUPPORTED_SATS)
    /\ 8 \in Range(topology.neighbors[0])

C7_UnsupportedGivesEmpty ==
    genArgs # <<>> =>
        /\ pc # "start"
        /\ topology.numSatellites = genArgs[1]
        /\ genArgs # <<24, 4>> =>
              /\ topology.numLinks = 0
              /\ topology.neighbors = EmptyMap
        /\ topology.numLinks = 0 => genArgs # <<24, 4>>

\* the generator has returned for (24, 3), the count supported and the degree not
C7_Witness ==
    /\ pc = "topology"
    /\ genArgs = <<24, 3>>
    /\ topology.numLinks = 0

(***************************************************************************)
(* Notions for the link fabric claims.                                     *)
(***************************************************************************)
\* CreateIslMesh has returned normally
MeshBuilt == pc \in {"mesh", "addressed", "routed", "installed"}

\* the data model's invariant: B is listed by A iff A is listed by B
SymmetricAdjacency(T) ==
    \A A \in Nodes(T.numSatellites) :
        \A B \in Range(NeighborsOf(T, A)) : A \in Range(NeighborsOf(T, B))

\* the logical undirected edges, as canonical pairs (A,B), A < B
LogicalEdges(T) ==
    {e \in Nodes(T.numSatellites) \X Nodes(T.numSatellites) :
        /\ e[1] < e[2]
        /\ \/ e[2] \in Range(NeighborsOf(T, e[1]))
           \/ e[1] \in Range(NeighborsOf(T, e[2]))}

\* number of links created: one per two devices
LinkCount == Len(allIslDevices) \div 2

\* the endpoints of the i-th link created (i from 0), first device first
LinkEnds(i) == <<allIslDevices[2 * i + 1].node, allIslDevices[2 * i + 2].node>>

\* X's creation rank of link i: how many of the links 0..i touch X
CreationRank(X, i) ==
    Cardinality({j \in 0 .. i : X = LinkEnds(j)[1] \/ X = LinkEnds(j)[2]})

C10_InterfaceIndexIsCreationRank ==
    pc = "installed" =>
        /\ \A i \in 0 .. (LinkCount - 1) :
              LET A == LinkEnds(i)[1]
                  B == LinkEnds(i)[2]
              IN  /\ <<A, B>> \in DOMAIN linkToLocalInterface
                  /\ <<B, A>> \in DOMAIN linkToLocalInterface
                  /\ linkToLocalInterface[<<A, B>>].interface = CreationRank(A, i)
                  /\ linkToLocalInterface[<<B, A>>].interface = CreationRank(B, i)
        /\ IsWalkerMesh =>
              \A X \in Nodes(topology.numSatellites) :
                  LET nb == Range(topology.neighbors[X])
                  IN  /\ \A Y \in nb : <<X, Y>> \in DOMAIN linkToLocalInterface
                      /\ {linkToLocalInterface[<<X, Y>>].interface : Y \in nb} = 1 .. 4
                      /\ Cardinality(nb) = 4

\* routes installed on a mesh where some link's rank at an endpoint differs from
\* its rank at the other endpoint
C10_Witness ==
    /\ pc = "installed"
    /\ \E i \in 0 .. (LinkCount - 1) :
          /\ CreationRank(LinkEnds(i)[1], i) = 2
          /\ CreationRank(LinkEnds(i)[2], i) = 1

(***************************************************************************)
(* The next-hop walk as such: where following GetNextHop from cur leads.   *)
(***************************************************************************)
RECURSIVE WalkOutcome(_, _, _, _)
WalkOutcome(m, cur, dst, seen) ==
    IF cur = dst THEN "arrives"
    ELSE IF cur \in seen THEN "revisits"
    ELSE IF GetNextHop(m, cur, dst) = UINT32_MAX THEN "missing"
    ELSE WalkOutcome(m, GetNextHop(m, cur, dst), dst, seen \cup {cur})

(***************************************************************************)
(* C4: on every routing table, cycles and missing entries included,        *)
(* GetHopCount terminates, and it returns UINT32_MAX whenever the walk     *)
(* from src revisits a node or meets a missing entry before reaching dst.  *)
(***************************************************************************)
\* the result once GetHopCount has returned, and the bound on its passes
C4_SentinelOnLoopOrGap ==
    /\ pc \in {"walking", "walked"} =>
          /\ walk.w.hops <= Cardinality(walk.w.visited)
          /\ walk.w.visited \subseteq TableNodes
    /\ pc = "walked" =>
          (WalkOutcome(routes, walk.src, walk.dst, {}) \in {"revisits", "missing"}
              => walk.w.ret = UINT32_MAX)

\* a pass of the loop either ends the call or adds a node never seen before
C4_PassMakesProgress ==
    (pc = "walking" /\ ~walk.w.done) =>
        \/ walk'.w.done
        \/ Cardinality(walk'.w.visited) = Cardinality(walk.w.visited) + 1

C4_GetHopCountTerminates ==
    /\ []C4_SentinelOnLoopOrGap
    /\ [][C4_PassMakesProgress]_vars
    /\ ((pc = "walking") ~> (pc = "walked"))

\* GetHopCount has returned the sentinel after walking round a 2-node cycle
C4_Witness ==
    /\ pc = "walked"
    /\ walk.w.ret = UINT32_MAX
    /\ Cardinality(walk.w.visited) = 2
    /\ walk.w.current = walk.src
    /\ walk.w.current \in walk.w.visited
    /\ WalkOutcome(routes, walk.src, walk.dst, {}) = "revisits"

(***************************************************************************)
(* Notions for the address claims.                                         *)
(***************************************************************************)
\* AssignIslAddresses has returned
Addressed == pc \in {"addressed", "routed", "installed"}

\* the /30 block an address lies in: network, two hosts, broadcast
BlockOf(addr) == {<<addr[1], addr[2], addr[3], (addr[4] \div 4) * 4 + k>> : k \in 0 .. 3}

\* the addresses the two endpoints of the i-th link hold on that link
LinkAddr(i, end) == GetAddress(islInterfaces, ipv4, 2 * i + end)

(***************************************************************************)
(* C11: after AssignIslAddresses every link has its own 4-address block:   *)
(* its two endpoints hold the two distinct host addresses of one block     *)
(* (not the network, not the broadcast address), and the blocks of two     *)
(* distinct links share no address.                                        *)
(***************************************************************************)
C11_LinkBlocksDisjoint ==
    Addressed =>
        /\ Len(islInterfaces) = 2 * LinkCount
        /\ \A i \in 0 .. (LinkCount - 1) :
              /\ islInterfaces[2 * i + 1].node = LinkEnds(i)[1]
              /\ islInterfaces[2 * i + 2].node = LinkEnds(i)[2]
              /\ BlockOf(LinkAddr(i, 0)) = BlockOf(LinkAddr(i, 1))
              /\ LinkAddr(i, 0) # LinkAddr(i, 1)
              /\ {LinkAddr(i, 0)[4] % 4, LinkAddr(i, 1)[4] % 4} = {1, 2}
              /\ \A k \in 1 .. 4 : LinkAddr(i, 0)[k] \in 0 .. 255
        /\ \A i \in 0 .. (LinkCount - 1), j \in 0 .. (LinkCount - 1) :
              i # j => BlockOf(LinkAddr(i, 0)) \cap BlockOf(LinkAddr(j, 0)) = {}

\* the 48 links of the 24/4 mesh are addressed; the last one got 10.0.188.0/30
C11_Witness ==
    /\ pc = "addressed"
    /\ LinkCount = 48
    /\ LinkAddr(47, 0) = <<10, 0, 188, 1>>
    /\ LinkAddr(47, 1) = <<10, 0, 188, 2>>

(***************************************************************************)
(* C12: for every link index i, also where i / 64 or (i % 64) * 4 would    *)
(* pass 255 (i = 64, i = 16384), SetBase gets a valid IPv4 address, every  *)
(* octet in 0..255 as written, and one no other link index gets.           *)
(***************************************************************************)
C12_SubnetBaseValid ==
    probe.stage \in {"based", "aborted"} =>
        /\ probe.stage = "based"
        /\ ValidOctets(probe.subnet)
        /\ probe.base = probe.subnet
        /\ \A j \in LinkIndexes \ {probe.i} :
              \A lib \in Ipv4Libraries :
                  ParseIpv4(SubnetBase(j), lib).ok =>
                      ParseIpv4(SubnetBase(j), lib).addr # probe.base

\* the pass for link 64 has set the base 10.1.0.0: the third number rolled over
C12_Witness ==
    /\ probe.stage = "based"
    /\ probe.i = LINKS_PER_OCTET
    /\ probe.base = <<10, 1, 0, 0>>

(***************************************************************************)
(* C13: generator (24,4), CreateIslMesh, AssignIslAddresses,               *)
(* ComputeStaticRoutes and InstallStaticRoutes in that order install       *)
(* exactly one host route per ordered pair (src,dst), src # dst: 23 per    *)
(* satellite, 552 in all, none skipped; and no pair ever gets two routes.  *)
(***************************************************************************)
C13_OneRoutePerPair ==
    pc = "installed" =>
        /\ DOMAIN staticRouting = Nodes(topology.numSatellites)
        /\ \A src \in DOMAIN staticRouting :
              \A a \in DOMAIN staticRouting[src], b \in DOMAIN staticRouting[src] :
                  a # b => staticRouting[src][a].dst # staticRouting[src][b].dst
        /\ IsWalkerMesh =>
              /\ \A src \in 0 .. 23 :
                    /\ Len(staticRouting[src]) = 23
                    /\ {staticRouting[src][k].dst : k \in 1 .. 23} = (0 .. 23) \ {src}
              /\ Cardinality({e \in (0 .. 23) \X (1 .. 23) :
                                e[2] \in DOMAIN staticRouting[e[1]]}) = 552
              /\ \A d1 \in 0 .. 23, d2 \in 0 .. 23 :
                    d1 # d2 => satelliteAddress[d1] # satelliteAddress[d2]

\* the routes are installed on the 24/4 mesh; satellite 0 reaches 23 in more than one hop
C13_Witness ==
    /\ pc = "installed"
    /\ IsWalkerMesh
    /\ GetNextHop(routes, 0, 23) \notin {23, UINT32_MAX}
    /\ \E k \in DOMAIN staticRouting[0] : staticRouting[0][k].dst = 23

(***************************************************************************)
(* Notions for the installed routes, read off the nodes' interface lists.  *)
(***************************************************************************)
\* the interface indices of X whose device is X's end of the link to Y
InterfacesToward(X, Y) ==
    {k \in 1 .. (Len(ipv4[X]) - 1) : ipv4[X][k + 1].device = [node |-> X, peer |-> Y]}

\* the addresses X holds on its ISL interfaces
OwnedAddresses(X) == {ipv4[X][k + 1].addr : k \in 1 .. (Len(ipv4[X]) - 1)}

(***************************************************************************)
(* C14: every host route installed on src for dst leaves through src's     *)
(* interface on the link to NextHop(src,dst), has as gateway the next      *)
(* hop's address on that same link (same 4-address block as src's address  *)
(* on the egress interface), and as destination an address dst owns.       *)
(***************************************************************************)
C14_RouteFields ==
    pc = "installed" =>
        \A src \in DOMAIN staticRouting :
            \A k \in DOMAIN staticRouting[src] :
                LET r == staticRouting[src][k]
                    nextHop == GetNextHop(routes, src, r.dst)
                IN  /\ r.dst # src
                    /\ nextHop # UINT32_MAX
                    /\ InterfacesToward(src, nextHop) = {r.interface}
                    /\ \E g \in InterfacesToward(nextHop, src) :
                          r.gateway = ipv4[nextHop][g + 1].addr
                    /\ r.gateway # ipv4[src][r.interface + 1].addr
                    /\ BlockOf(r.gateway) = BlockOf(ipv4[src][r.interface + 1].addr)
                    /\ r.dest \in OwnedAddresses(r.dst)

\* routes installed on a hand-built topology, one of them through an intermediate
\* node whose egress interface is not its first
C14_Witness ==
    /\ pc = "installed"
    /\ genArgs = <<>>
    /\ \E src \in DOMAIN staticRouting :
          \E k \in DOMAIN staticRouting[src] :
              /\ GetNextHop(routes, src, staticRouting[src][k].dst) # staticRouting[src][k].dst
              /\ staticRouting[src][k].interface = 2

\* the four lookups of one pair all succeed
PairComplete(src, dst) ==
    LET nextHop == GetNextHop(routes, src, dst)
    IN  /\ nextHop # UINT32_MAX
        /\ dst \in DOMAIN satelliteAddress
        /\ <<src, nextHop>> \in DOMAIN linkToLocalInterface
        /\ <<nextHop, src>> \in DOMAIN linkToLocalInterface

\* the positions in src's static routing table that hold a route for dst
RoutesFor(src, dst) ==
    {k \in DOMAIN staticRouting[src] : staticRouting[src][k].dst = dst}

(***************************************************************************)
(* C15: in InstallStaticRoutes a pair whose next hop, destination address, *)
(* binding (src,nextHop) or reverse binding (nextHop,src) is missing gets  *)
(* no route at all, installation runs to its end for every source, and     *)
(* every pair with all four present gets its route, wherever it stands in  *)
(* the loop relative to a skipped pair.                                    *)
(***************************************************************************)
C15_SkipPolicy ==
    pc = "installed" =>
        /\ DOMAIN staticRouting = Nodes(topology.numSatellites)
        /\ \A src \in Nodes(topology.numSatellites), dst \in Nodes(topology.numSatellites) :
              /\ (src = dst \/ ~PairComplete(src, dst)) => RoutesFor(src, dst) = {}
              /\ (src # dst /\ PairComplete(src, dst)) => Cardinality(RoutesFor(src, dst)) = 1
              /\ \A k \in RoutesFor(src, dst) :
                    /\ staticRouting[src][k].dest = satelliteAddress[dst]
                    /\ staticRouting[src][k].dest \in OwnedAddresses(dst)
                    /\ staticRouting[src][k].interface >= 1

\* a source skips a pair for a missing destination address and installs a later pair
C15_Witness ==
    /\ pc = "installed"
    /\ \E src \in Nodes(topology.numSatellites) :
          \E d1 \in Nodes(topology.numSatellites), d2 \in Nodes(topology.numSatellites) :
              /\ d1 < d2 /\ d1 # src /\ d2 # src
              /\ GetNextHop(routes, src, d1) # UINT32_MAX
              /\ d1 \notin DOMAIN satelliteAddress
              /\ RoutesFor(src, d1) = {}
              /\ RoutesFor(src, d2) # {}

\* reachability of the other skip cases
C15_SkipThenInstall ==
    /\ pc = "installed"
    /\ \E src \in Nodes(topology.numSatellites) :
          \E d1 \in Nodes(topology.numSatellites), d2 \in Nodes(topology.numSatellites) :
              /\ d1 < d2 /\ d1 # src /\ d2 # src
              /\ ~PairComplete(src, d1) /\ PairComplete(src, d2)
C15_InstallThenSkip ==
    /\ pc = "installed"
    /\ \E src \in Nodes(topology.numSatellites) :
          \E d1 \in Nodes(topology.numSatellites), d2 \in Nodes(topology.numSatellites) :
              /\ d1 < d2 /\ d1 # src /\ d2 # src
              /\ PairComplete(src, d1) /\ ~PairComplete(src, d2)
C15_NoNextHop ==
    /\ pc = "installed"
    /\ \E src \in Nodes(topology.numSatellites), dst \in Nodes(topology.numSatellites) :
          src # dst /\ GetNextHop(routes, src, dst) = UINT32_MAX
C15_NoBinding ==
    /\ pc = "installed"
    /\ \E src \in Nodes(topology.numSatellites), dst \in Nodes(topology.numSatellites) :
          /\ src # dst /\ GetNextHop(routes, src, dst) # UINT32_MAX
          /\ dst \in DOMAIN satelliteAddress
          /\ <<src, GetNextHop(routes, src, dst)>> \notin DOMAIN linkToLocalInterface

\* a step of the pipeline has been taken on the node container
MeshCalled == pc \in {"mesh", "addressed", "routed", "installed", "aborted"}

(***************************************************************************)
(* C16: when the number of nodes handed to CreateIslMesh differs from      *)
(* topology.numSatellites the call fails fatally before any link exists:   *)
(* no device is installed and neither address assignment nor route         *)
(* installation ever runs.                                                 *)
(***************************************************************************)
C16_CountMismatchFatal ==
    (MeshCalled /\ NodeCount # topology.numSatellites) =>
        /\ pc = "aborted"
        /\ allIslDevices = <<>>
        /\ islInterfaces = <<>>
        /\ staticRouting = EmptyMap

\* the call returned on a container one node larger than the topology, links were
\* created and the later steps ran to the end
C16_Witness ==
    /\ pc = "installed"
    /\ NodeCount = topology.numSatellites + 1
    /\ allIslDevices # <<>>
    /\ \E src \in DOMAIN staticRouting : staticRouting[src] # <<>>

\* with the assertion compiled in, the same call stops before any link
C16_AssertedAbort ==
    /\ pc = "aborted"
    /\ NodeCount # topology.numSatellites
    /\ \A sat \in Nodes(topology.numSatellites) : sat \in DOMAIN topology.neighbors
    /\ topology.numSatellites > 0
    /\ allIslDevices = <<>>

\* the generator returned the empty topology it gives for an unsupported request
EmptyUnsupported == genArgs # <<>> /\ ~IsWalkerMesh /\ topology.numLinks = 0

(***************************************************************************)
(* C17: when GenerateWalkerDeltaTopology returns the empty unsupported     *)
(* topology, setup stops before CreateIslMesh: neither it nor address      *)
(* assignment nor route installation runs with that topology, and no       *)
(* missing adjacency entry is ever looked up.                              *)
(***************************************************************************)
C17_EmptyTopologyDetected == EmptyUnsupported => ~MeshCalled

\* --satellites=10: CreateIslMesh was entered on the ten nodes and ended the run at
\* topology.neighbors.at(0), before any link
C17_Witness ==
    /\ genArgs = <<10, SUPPORTED_NEIGHBORS>>
    /\ topology.numLinks = 0
    /\ 0 \notin DOMAIN topology.neighbors
    /\ NodeCount = 10
    /\ pc = "aborted"
    /\ allIslDevices = <<>>

\* the ordered pairs (s,d), s # d, with a path of neighbor entries from s to d
ReachablePairs(T) ==
    {p \in Nodes(T.numSatellites) \X Nodes(T.numSatellites) :
        p[1] # p[2] /\ MinEdges(T)[p[1]][p[2]] # UINT32_MAX}

(***************************************************************************)
(* C18: ComputeMeshConnectivity(T) is the number of ordered pairs (s,d),   *)
(* s # d, d reachable from s, divided by numSatellites*(numSatellites-1);  *)
(* it is exactly 1.0 on the 24/4 topology, with all 552 pairs reachable,   *)
(* and 0.0 when numSatellites <= 1 or the topology is the empty one of an  *)
(* unsupported request.                                                    *)
(***************************************************************************)
C18_ConnectivityRatio ==
    pc = "measured" =>
        LET n == topology.numSatellites
        IN  /\ connectivity.den > 0
            /\ n > 1 => connectivity.num * (n * (n - 1))
                            = Cardinality(ReachablePairs(topology)) * connectivity.den
            /\ n <= 1 => connectivity.num = 0
            /\ IsWalkerMesh => /\ Cardinality(ReachablePairs(topology)) = 552
                               /\ connectivity.num = connectivity.den
            /\ EmptyUnsupported => connectivity.num = 0

\* measured: a hand-built topology where some but not all pairs are reachable
C18_Witness ==
    /\ pc = "measured"
    /\ genArgs = <<>>
    /\ topology.numSatellites = 3
    /\ connectivity.num > 0
    /\ connectivity.num < connectivity.den

\* measured: the 24/4 topology and the empty topology of an unsupported request
C18_MeasuredWalker == pc = "measured" /\ IsWalkerMesh /\ connectivity = [num |-> 552, den |-> 552]
C18_MeasuredEmpty ==
    /\ pc = "measured"
    /\ genArgs = <<10, SUPPORTED_NEIGHBORS>>
    /\ connectivity = [num |-> 0, den |-> 90]

\* what SetNextHop was last given for (src, dst), UINT32_MAX when it never was called
StoredOr(src, dst) ==
    IF <<src, dst>> \in DOMAIN frame.stored THEN frame.stored[<<src, dst>>] ELSE UINT32_MAX

\* the pairs (src, dst) that have an entry in the table
TableEntries(m_nextHop) ==
    {p \in (DOMAIN m_nextHop) \X FrameNodes : p[2] \in DOMAIN m_nextHop[p[1]]}

(***************************************************************************)
(* C19: over any sequence of calls on a RoutingTables object,              *)
(* GetNextHop(src,dst) is the next hop most recently stored by             *)
(* SetNextHop(src,dst,.), UINT32_MAX if none was; SetNextHop(s,d,h)        *)
(* changes the result for (s,d) only; GetNextHop, GetAllNextHops and       *)
(* GetHopCount neither change an entry nor create one.                     *)
(***************************************************************************)
C19_TableFrame ==
    /\ \A src \in FrameNodes, dst \in FrameNodes :
          GetNextHop(routes, src, dst) = StoredOr(src, dst)
    /\ TableEntries(routes) = DOMAIN frame.stored
    /\ DOMAIN routes = {p[1] : p \in DOMAIN frame.stored}
    /\ frame.op = "GetNextHop" => frame.ret = StoredOr(frame.src, frame.dst)
    /\ frame.op = "GetAllNextHops" =>
          /\ DOMAIN frame.all = {d \in FrameNodes : <<frame.src, d>> \in DOMAIN frame.stored}
          /\ \A d \in DOMAIN frame.all : frame.all[d] = frame.stored[<<frame.src, d>>]

\* a read after three stores, two of them on different columns of the same row
C19_Witness ==
    /\ sets = 3
    /\ frame.op = "GetNextHop"
    /\ Cardinality(DOMAIN frame.stored) = 2
    /\ \E src \in FrameNodes : DOMAIN GetAllNextHops(routes, src) = FrameNodes
    /\ frame.ret # UINT32_MAX

\* the position at which B first appears in A's neighbor list
FirstPos(T, A, B) ==
    CHOOSE k \in DOMAIN NeighborsOf(T, A) :
        /\ NeighborsOf(T, A)[k] = B
        /\ \A j \in 1 .. (k - 1) : NeighborsOf(T, A)[j] # B

\* the canonical pairs (A,B), A < B, with B in A's own neighbor list
CanonicalPairs(T) ==
    {e \in Nodes(T.numSatellites) \X Nodes(T.numSatellites) :
        e[1] < e[2] /\ e[2] \in Range(NeighborsOf(T, e[1]))}

(***************************************************************************)
(* C20: the link sequence of CreateIslMesh is a function of the topology:  *)
(* the links are the canonical pairs (A,B), A < B, in ascending order of A *)
(* and, for equal A, in the order B appears in A's neighbor list; the      *)
(* device of A is stored before the device of B; hence every run on the    *)
(* same topology gives the same per-node interface indices and the same    *)
(* link block numbers.                                                     *)
(***************************************************************************)
C20_LinkOrder ==
    MeshBuilt =>
        /\ {LinkEnds(i) : i \in 0 .. (LinkCount - 1)} = CanonicalPairs(topology)
        /\ \A i \in 0 .. (LinkCount - 1) :
              /\ LinkEnds(i)[1] < LinkEnds(i)[2]
              /\ allIslDevices[2 * i + 1].peer = LinkEnds(i)[2]
              /\ allIslDevices[2 * i + 2].peer = LinkEnds(i)[1]
              /\ \A j \in (i + 1) .. (LinkCount - 1) :
                    \/ LinkEnds(i)[1] < LinkEnds(j)[1]
                    \/ /\ LinkEnds(i)[1] = LinkEnds(j)[1]
                       /\ FirstPos(topology, LinkEnds(i)[1], LinkEnds(i)[2])
                             < FirstPos(topology, LinkEnds(i)[1], LinkEnds(j)[2])
        /\ Addressed =>
              \A i \in 0 .. (LinkCount - 1) :
                  /\ islInterfaces[2 * i + 1].interface = CreationRank(LinkEnds(i)[1], i)
                  /\ islInterfaces[2 * i + 2].interface = CreationRank(LinkEnds(i)[2], i)
                  /\ BlockOf(LinkAddr(i, 0)) = BlockOf(HostAddress(SubnetBase(i), 1))
                  /\ BlockOf(LinkAddr(i, 1)) = BlockOf(HostAddress(SubnetBase(i), 1))

\* satellite 0 lists 2 before 1: link (0,2) is created first and is interface 1 of
\* satellite 0, link (0,1) second
C20_Witness ==
    /\ pc = "addressed"
    /\ LinkCount = 2
    /\ LinkEnds(0) = <<0, 2>>
    /\ LinkEnds(1) = <<0, 1>>
    /\ islInterfaces[3].interface = 2

\* the neighbors of src that lie on a shortest path to dst; me is MinEdges(T)
TiedFirstHops(T, me, src, dst) ==
    {v \in Succ(T, src) : me[v][dst] = me[src][dst] - 1}

\* the first of them in the order of src's neighbor list
FirstListed(T, me, src, dst) ==
    LET list == NeighborsOf(T, src)
        tied == TiedFirstHops(T, me, src, dst)
        k == CHOOSE i \in DOMAIN list :
                list[i] \in tied /\ \A j \in 1 .. (i - 1) : list[j] \notin tied
    IN  list[k]

\* the least-index node one edge before v on a shortest path from src; me is
\* MinEdges(T), listedBy[v] the nodes that list v
LeastPred(me, listedBy, src, v) ==
    LET preds == {u \in listedBy[v] : me[src][u] # UINT32_MAX /\ me[src][u] + 1 = me[src][v]}
    IN  CHOOSE u \in preds : \A w \in preds : u <= w

(***************************************************************************)
(* C21, as found in the code: ties among equal-length shortest paths are   *)
(* broken by node index, not by the order of the neighbor lists.  The      *)
(* queue hands out equal distances in ascending node index, so each node's *)
(* predecessor is its least-index predecessor on a shortest path (a direct *)
(* neighbor is its own first hop, a farther node shares the first hop of   *)
(* that predecessor), and two topologies with the same edges and           *)
(* differently ordered lists get the same table.                           *)
(***************************************************************************)
C21_TiesByNodeIndex ==
    pc = "reordered" =>
        LET me == MinEdges(topology) @@ EmptyMap
            listedBy == [v \in Nodes(topology.numSatellites) |->
                            {u \in Nodes(topology.numSatellites) : v \in Succ(topology, u)}]
                        @@ EmptyMap
        IN  /\ reorder.routes = routes
            /\ \A src \in DOMAIN routes :
                  \A dst \in DOMAIN routes[src] :
                      routes[src][dst] =
                          IF me[src][dst] = 1 THEN dst
                          ELSE routes[src][LeastPred(me, listedBy, src, dst)]

\* C21 as stated: ties are broken by the order of the neighbor lists (the next hop is
\* the first listed neighbor of src on a shortest path), which makes the table
\* depend on that order
C21_TiesByListOrder ==
    pc = "reordered" =>
        LET me == MinEdges(topology)
        IN  \A src \in DOMAIN routes :
                \A dst \in DOMAIN routes[src] :
                    routes[src][dst] = FirstListed(topology, me, src, dst)

\* a pair with two tied first hops whose order in src's list was exchanged
C21_Witness ==
    /\ pc = "reordered"
    /\ LET me == MinEdges(topology)
       IN  \E src \in DOMAIN routes :
               \E dst \in DOMAIN routes[src] :
                   /\ Cardinality(TiedFirstHops(topology, me, src, dst)) >= 2
                   /\ FirstListed(topology, me, src, dst)
                         # FirstListed(reorder.topology, me, src, dst)

\* the table in state is that of the chain 0 -> 1 -> ... -> walk.dst
OnChain ==
    /\ walk.src = 0
    /\ DOMAIN routes = 0 .. (walk.dst - 1)
    /\ \A i \in DOMAIN routes : GetNextHop(routes, i, walk.dst) = i + 1

(***************************************************************************)
(* C22: the iteration allowance of GetHopCount is above the length of      *)
(* every walk: when following next hops from src reaches dst without       *)
(* revisiting a node, GetHopCount returns exactly the number of hops of    *)
(* the walk and never the no-route value, also for walks of 100, 101 and   *)
(* more hops.                                                              *)
(***************************************************************************)
C22_CapAboveEveryWalk ==
    (pc = "walked" /\ OnChain) =>
        /\ walk.w.ret = walk.dst - walk.src
        /\ walk.w.ret # UINT32_MAX

\* the walk of 101 hops arrives at dst and the call returns the no-route value
C22_Witness ==
    /\ pc = "walked"
    /\ OnChain
    /\ walk.dst = HOP_LIMIT + 1
    /\ walk.w.current = walk.dst
    /\ walk.w.hops = HOP_LIMIT + 1
    /\ walk.w.ret = UINT32_MAX

\* the walk of exactly 100 hops is still counted
C22_HundredHops == pc = "walked" /\ OnChain /\ walk.dst = HOP_LIMIT /\ walk.w.ret = HOP_LIMIT

\* the address k above 10.0.0.0
TenPlus(k) == <<10, (k \div 65536) % 256, (k \div 256) % 256, k % 256>>

(***************************************************************************)
(* C23: AssignIslAddresses numbers the /30 blocks consecutively in link    *)
(* creation order from 10.0.0.0: the network address of link i is          *)
(* 10.0.0.0 + 4*i (link 0 = 10.0.0.0/30, link 1 = 10.0.0.4/30, link 2 =    *)
(* 10.0.0.8/30), so its two hosts are 10.0.0.0 + 4*i + 1 and + 2.          *)
(***************************************************************************)
C23_ConsecutiveBlocks ==
    Addressed =>
        \A i \in 0 .. (LinkCount - 1) :
            /\ LinkAddr(i, 0) = TenPlus(4 * i + 1)
            /\ LinkAddr(i, 1) = TenPlus(4 * i + 2)

\* links 0, 1 and 2 addressed: their first hosts are 10.0.0.1, 10.0.4.1 and 10.0.8.1
C23_Witness ==
    /\ pc = "addressed"
    /\ LinkCount >= 3
    /\ LinkAddr(0, 0) = <<10, 0, 0, 1>>
    /\ LinkAddr(1, 0) = <<10, 0, 4, 1>>
    /\ LinkAddr(2, 0) = <<10, 0, 8, 1>>

RECURSIVE SeenBytes(_, _, _)
SeenBytes(seen, tx, app) ==
    IF seen = <<>> THEN 0
    ELSE (IF Head(seen).tx = tx /\ (Head(seen).flow # 0) = app
            THEN Head(seen).packet.size ELSE 0)
         + SeenBytes(Tail(seen), tx, app)

\* C25: every flow main configures has its destination port in 9..14, so IsDataPacket
\* takes each of its packets for data and the control-byte counters hold only the bytes
\* of packets that no application sent.
C25_AllFlowsAreData ==
    /\ \A f \in traffic.flows :
          /\ f.port \in DATA_PORT_MIN .. DATA_PORT_MAX
          /\ IsDataPacket(AppPacket(f))
    /\ traffic.m_controlBytesTx = SeenBytes(traffic.seen, TRUE, FALSE)
    /\ traffic.m_controlBytesRx = SeenBytes(traffic.seen, FALSE, FALSE)

\* the default run: 20 ground nodes, ground mesh flow 5 is sent to port 15 and a packet
\* of it has been added to the control bytes
C25_Witness ==
    /\ traffic.stage = "running"
    /\ traffic.groundNodes = DefaultGroundNodes
    /\ ~traffic.satelliteOnly /\ ~traffic.groundOnly
    /\ Flow("ground", 5, 2, 18, 15) \in traffic.flows
    /\ Len(traffic.seen) = 1
    /\ traffic.seen[1].flow = 5 /\ traffic.seen[1].tx
    /\ traffic.m_controlBytesTx = 540
    /\ traffic.m_dataBytesTx = 0

\* every flow but ground mesh flow 5 is classified as data
C25_OtherFlowsAreData ==
    \A f \in traffic.flows :
        (f.layer = "ground" /\ f.id = 5) \/ IsDataPacket(AppPacket(f))


(***************************************************************************)
(* C26                                                                     *)
(***************************************************************************)
\* C26: with the routes of the 24/4 mesh, the flow of test 2 from satellite 0 to
\* satellite 23 takes 5 hops and the flow of test 1 from satellite 0 to satellite 1
\* takes 1 hop.
C26_TestFlowHops ==
    (IsWalkerMesh /\ routed) =>
        /\ GetHopCount(routes, 0, 23) = 5
        /\ GetHopCount(routes, 0, 1) = 1

\* the routes of the 24/4 mesh are computed: satellite 0 reaches satellite 23 in 2 hops,
\* through its backward neighbor 7, which has 23 as the same slot of the previous plane
C26_Witness ==
    /\ IsWalkerMesh /\ routed
    /\ GetHopCount(routes, 0, 23) = 2
    /\ GetNextHop(routes, 0, 23) = 7
    /\ GetNextHop(routes, 7, 23) = 23
    /\ GetHopCount(routes, 0, 1) = 1


(***************************************************************************)
(* C27                                                                     *)
(***************************************************************************)
\* C27: in the search from src the predecessor recorded for a node v at distance d > 0
\* is the least-index node at distance d - 1 that lists v, so the table is a function
\* of the edge set: a topology whose neighbor lists hold the same nodes in another
\* order, or with entries doubled, gets the same GetNextHop(src, dst) for every pair.
C27_TableOfEdgeSet ==
    pc = "reordered" =>
        LET n == topology.numSatellites
            me == MinEdges(topology) @@ EmptyMap
            listedBy == [v \in Nodes(n) |-> {u \in Nodes(n) : v \in Succ(topology, u)}]
                        @@ EmptyMap
        IN  /\ \A src \in Nodes(n) :
                  LET st == SingleSource(topology, src)
                      prev == st.prev @@ EmptyMap
                      dist == st.dist @@ EmptyMap
                  IN  /\ dist = me[src]
                      /\ \A v \in Nodes(n) :
                            prev[v] = IF v # src /\ dist[v] # UINT32_MAX
                                        THEN LeastPred(me, listedBy, src, v)
                                        ELSE UINT32_MAX
            /\ \A a \in Nodes(n) : Succ(reorder.topology, a) = Succ(topology, a)
            /\ \A src \in Nodes(n), dst \in Nodes(n) :
                  GetNextHop(reorder.routes, src, dst) = GetNextHop(routes, src, dst)

\* a node with two predecessors at the same distance from src, in a topology compared
\* with one that has a doubled entry in front of a list of three different neighbors
C27_Witness ==
    /\ pc = "reordered"
    /\ \E a \in DOMAIN topology.neighbors :
          /\ Len(reorder.topology.neighbors[a]) = Len(topology.neighbors[a]) + 1
          /\ Cardinality(Range(topology.neighbors[a])) >= 3
          /\ reorder.topology.neighbors[a][1] # topology.neighbors[a][1]
    /\ LET me == MinEdges(topology) @@ EmptyMap
       IN  \E src \in DOMAIN routes :
               \E v \in DOMAIN routes[src] :
                   Cardinality({u \in Nodes(topology.numSatellites) :
                                   /\ v \in Succ(topology, u)
                                   /\ me[src][u] # UINT32_MAX
                                   /\ me[src][u] + 1 = me[src][v]}) >= 2


(***************************************************************************)
(* C28                                                                     *)
(***************************************************************************)
\* the host routes of cur whose destination is addr, by position
RoutesTo(cur, addr) ==
    {k \in DOMAIN staticRouting[cur] : staticRouting[cur][k].dest = addr}

\* the nodes a packet for dst's representative address visits from cur on when every
\* node forwards it by its host route for that address to the owner of the gateway;
\* UINT32_MAX closes the list when a node has not exactly one such route, the gateway
\* has not exactly one owner, or the budget of moves is used up.  owner maps an
\* address to the set of nodes holding it
RECURSIVE ForwardPath(_, _, _, _)
ForwardPath(owner, cur, dst, budget) ==
    IF cur = dst THEN <<cur>>
    ELSE IF budget = 0 \/ dst \notin DOMAIN satelliteAddress THEN <<cur, UINT32_MAX>>
    ELSE LET ks == RoutesTo(cur, satelliteAddress[dst])
         IN  IF Cardinality(ks) # 1 THEN <<cur, UINT32_MAX>>
             ELSE LET r == staticRouting[cur][CHOOSE k \in ks : TRUE]
                  IN  IF r.gateway \notin DOMAIN owner \/ Cardinality(owner[r.gateway]) # 1
                      THEN <<cur, UINT32_MAX>>
                      ELSE <<cur>> \o ForwardPath(owner, CHOOSE x \in owner[r.gateway] : TRUE,
                                                  dst, budget - 1)

\* the nodes GetNextHop leads through from cur to dst
RECURSIVE NextHopChain(_, _, _, _)
NextHopChain(m, cur, dst, budget) ==
    IF cur = dst THEN <<cur>>
    ELSE IF budget = 0 \/ GetNextHop(m, cur, dst) = UINT32_MAX THEN <<cur, UINT32_MAX>>
    ELSE <<cur>> \o NextHopChain(m, GetNextHop(m, cur, dst), dst, budget - 1)

\* address -> the nodes that hold it on an ISL interface
AddressOwners ==
    LET all == UNION {OwnedAddresses(X) : X \in DOMAIN ipv4}
    IN  [a \in all |-> {X \in DOMAIN ipv4 : a \in OwnedAddresses(X)}]

\* C28: on the 24/4 mesh with its routes installed, forwarding by the host routes alone
\* goes through exactly the nodes of the GetNextHop chain from src to dst: every move
\* leaves through the interface of the link to a listed neighbor and arrives at that
\* neighbor, no node is visited twice, and dst is reached after GetHopCount moves.
C28_ForwardingFollowsNextHops ==
    (pc = "installed" /\ IsWalkerMesh) =>
        LET owner == AddressOwners @@ EmptyMap
            n == topology.numSatellites
        IN  \A src \in Nodes(n), dst \in Nodes(n) :
                LET path == ForwardPath(owner, src, dst, n)
                IN  /\ path = NextHopChain(routes, src, dst, n)
                    /\ path[Len(path)] = dst
                    /\ Len(path) = GetHopCount(routes, src, dst) + 1
                    /\ Cardinality(Range(path)) = Len(path)
                    /\ \A i \in 1 .. (Len(path) - 1) :
                          LET r == staticRouting[path[i]]
                                       [CHOOSE k \in RoutesTo(path[i], satelliteAddress[dst]) : TRUE]
                          IN  /\ path[i + 1] \in Range(NeighborsOf(topology, path[i]))
                              /\ ipv4[path[i]][r.interface + 1].device
                                    = [node |-> path[i], peer |-> path[i + 1]]

\* the 24/4 mesh with its routes installed: the packet from 0 to 12 makes five moves
C28_Witness ==
    /\ pc = "installed" /\ IsWalkerMesh
    /\ Len(ForwardPath(AddressOwners, 0, 12, SUPPORTED_SATS)) = 6
    /\ ForwardPath(AddressOwners, 0, 12, SUPPORTED_SATS)[6] = 12
    /\ GetHopCount(routes, 0, 12) = 5


(***************************************************************************)
(* C29                                                                     *)
(***************************************************************************)
\* C29: the blocks of all ISL links the pipeline addresses (48 on the 24/4 mesh, link
\* indices 0..47) lie in 10.0.0.0/16 and none of their addresses is in the ground
\* network 10.1.0.0/16; the base AssignIslAddresses forms for a link index is in the
\* ground network only from index 64 on, and the pipeline addresses fewer links.
C29_IslBlocksOutsideGroundNetwork ==
    /\ Addressed =>
          /\ Len(islInterfaces) \div 2 <= LINKS_PER_OCTET
          /\ IsWalkerMesh => Len(islInterfaces) = 96
          /\ \A i \in 0 .. (Len(islInterfaces) \div 2 - 1) :
                \A a \in BlockOf(LinkAddr(i, 0)) \cup BlockOf(LinkAddr(i, 1)) :
                    /\ a[1] = 10 /\ a[2] = 0
                    /\ ~InGroundNetwork(a)
    /\ \A i \in 0 .. MaxLinkIndex :
          InGroundNetwork(SubnetBase(i)) => i >= LINKS_PER_OCTET

\* the 48 links of the 24/4 mesh are addressed, the last one in 10.0.188.0/30; index
\* 64 would be the first one inside the ground network
C29_Witness ==
    /\ Addressed /\ IsWalkerMesh
    /\ Len(islInterfaces) = 96
    /\ LinkAddr(47, 0) = <<10, 0, 188, 1>>
    /\ LinkAddr(47, 1) = <<10, 0, 188, 2>>
    /\ InGroundNetwork(SubnetBase(LINKS_PER_OCTET))
    /\ ~InGroundNetwork(SubnetBase(LINKS_PER_OCTET - 1))


(***************************************************************************)
(* C30                                                                     *)
(***************************************************************************)
\* the topology without the list entries that name no satellite
WithoutStrays(T) ==
    [T EXCEPT !.neighbors =
        [a \in DOMAIN T.neighbors |->
            SelectSeq(T.neighbors[a], LAMBDA b : b < T.numSatellites)]]

\* C30: BFS and Dijkstra agree on what src reaches: BFS(T,src)[v] is true exactly when
\* Dijkstra(T,src)[v] is not UINT32_MAX, and exactly when a path src -> v exists.  List
\* entries >= numSatellites change neither result, and for src >= numSatellites BFS
\* returns all false and Dijkstra all UINT32_MAX.
C30_SameReachability ==
    pc = "searched" =>
        LET n == topology.numSatellites
            me == MinEdges(topology) @@ EmptyMap
        IN  /\ DOMAIN search.reachable = Nodes(n)
            /\ DOMAIN search.dist = Nodes(n)
            /\ \A v \in Nodes(n) :
                  /\ search.reachable[v] <=> (search.dist[v] # UINT32_MAX)
                  /\ search.src < n => search.dist[v] = me[search.src][v]
                  /\ search.src >= n => ~search.reachable[v] /\ search.dist[v] = UINT32_MAX
            /\ search.reachable = BFS(WithoutStrays(topology), search.src)
            /\ search.dist = Dijkstra(WithoutStrays(topology), search.src)

\* a source that reaches a satellite in two hops, through a node whose list names an
\* id that is no satellite in front of the satellite
C30_Witness ==
    /\ pc = "searched"
    /\ search.src < topology.numSatellites
    /\ \E u \in DOMAIN topology.neighbors :
          /\ u # search.src
          /\ Len(topology.neighbors[u]) = 2
          /\ topology.neighbors[u][1] = topology.numSatellites
          /\ topology.neighbors[u][2] < topology.numSatellites
          /\ search.dist[u] = 1
          /\ search.dist[topology.neighbors[u][2]] = 2
          /\ search.reachable[topology.neighbors[u][2]]

\* a source that does not reach some satellite, one of its own lists naming that
\* satellite's successor only
C30_Unreachable ==
    /\ pc = "searched"
    /\ search.src < topology.numSatellites
    /\ \E v \in DOMAIN search.dist :
          /\ search.dist[v] = UINT32_MAX /\ ~search.reachable[v]
          /\ v \in DOMAIN topology.neighbors
          /\ search.src \in Range(topology.neighbors[v])

\* both searches called with a source that is no satellite
C30_InvalidSource ==
    /\ pc = "searched"
    /\ search.src = topology.numSatellites
    /\ topology.numSatellites = MaxSat
    /\ topology.neighbors # EmptyMap

====
